---- MODULE Spec2Model ----
(***************************************************************************)
(* A model of the procedural engine of oracle-weather:                     *)
(*   engine/physics/particles.py  Vector2, Particle, force generators,     *)
(*                                ParticleSystem                           *)
(*   engine/rendering/core.py     FrameBudget, RenderQueue                 *)
(*   engine/physics/noise.py      PerlinNoise, SimplexNoise                *)
(*                                                                         *)
(* Numbers.  The program computes in floating point.  The model computes   *)
(* on an integer grid: positions, velocities and forces are integers, a    *)
(* time step is a whole number of ticks, and a real result that does not   *)
(* fall on the grid (a normalised vector, a quotient) is the exact real    *)
(* value truncated toward zero.  quality_level is held in hundredths.      *)
(* Noise coordinates are held in half units, for which the Perlin          *)
(* polynomial is exact in units of 1/512.                                  *)
(*                                                                         *)
(* Each subsystem has its own specification over the shared variable       *)
(* list; the variables of the other subsystems keep their initial value.   *)
(***************************************************************************)
EXTENDS Integers, Sequences, FiniteSets, TLC

VARIABLES
    (* ParticleSystem *)
    config,             \* PhysicsConfig of the system
    particles,          \* ParticleSystem.particles (a list)
    force_generators,   \* ParticleSystem.force_generators (a list)
    frame_count,        \* ParticleSystem.frame_count, capped by MaxFrames
    last_update,        \* history: substeps run by update() if it was the last call, else -1
    pre_update,         \* history: the particle list that update() started from
    (* a Particle driven directly, as the unit tests drive it *)
    p,                  \* the particle
    p_method,           \* the integration scheme p is driven with
    p_calls,            \* history: integrate() calls made on p since it was created
    (* FrameBudget *)
    target_fps,         \* FrameBudget.target_fps
    frame_start,        \* FrameBudget.frame_start, a clock reading in ms
    quality_level,      \* FrameBudget.quality_level, in hundredths
    overrun_count,      \* FrameBudget.overrun_count
    last_kind,          \* history: how the last frame fed to adjust_quality compared
    q_hist,             \* history: quality_level before each of the last (at most 6)
                        \* frames fed, while every frame fed since was over 1.2x budget
    prev_quality,       \* history: quality_level before the last frame fed
    under_run,          \* history: frames under 0.7x budget fed in a row, capped by MaxRun
    phase_start,        \* FrameBudget.phase_start, a clock reading in ms
    phase_times,        \* FrameBudget.phase_times: a dict, as its entries in insertion order
    (* RenderQueue *)
    commands,           \* RenderQueue.commands: a dict, as its entries in insertion order
    add_log,            \* history: every command given to add() since the last clear()
    exec,               \* history: what execute() did if it was the last call
    (* noise generators *)
    global_rng,         \* the state of the module-level generator of `random`
    noise,              \* two generator objects: kind, seed, tables, and the history
                        \* of what sample() returned at each point since construction
    (* AtmosphericModel and the convenience functions of atmosphere.py *)
    state,              \* AtmosphericModel.state: wind speed (tenths of m/s), cloud cover (%)
    atm_call,           \* history: the last call made, its arguments and what it returned
    (* particles stepped by hand: clear_forces, generator.apply, integrate *)
    bodies,             \* the particles stepped side by side (one or two)
    generator,          \* the one force generator applied to them
    loop_dt,            \* the dt passed to apply() and integrate()
    loop_method,        \* the IntegrationType passed to integrate()
    loop_pc,            \* the call the loop makes next: "clear", "apply", "integrate"
    loop_steps,         \* completed clear/apply/integrate steps
    loop_start,         \* history: the particles as the current step found them
    loop_raised,    \* the exception a call raised, "none" while none did
    (* RenderStats *)
    frame_times,        \* RenderStats.frame_times (a list)
    layer_times,        \* RenderStats.layer_times: a dict, as its entries in insertion order
    particle_counts,    \* RenderStats.particle_counts (a list)
    total_frames,       \* RenderStats.total_frames
    sample_window,      \* RenderStats.sample_window
    frame_log,          \* history: every (frame_time, particle_count) given to record_frame
    layer_log,      \* history: every (layer_name, render_time) given to record_layer
    (* a function wrapped by guard_performance(max_ms, fallback) *)
    skip_next,          \* the skip_next cell of the closure
    guard_fallback,     \* TRUE when a fallback was given, FALSE for fallback=None
    guard_max_ms,       \* max_ms
    guard_log,      \* history: what each call of the wrapper invoked, and how long it ran
    (* AchievementProgress *)
    achievement,        \* ACHIEVEMENTS.get(achievement_id): known or not, and its progress_max
    current,            \* AchievementProgress.current
    unlocked,           \* AchievementProgress.unlocked
    unlock_time,        \* AchievementProgress.unlock_time: <<>> for None, else <<time>>
    increment_log,  \* history: for each increment() its amount, what it returned and
                        \* the fields as it left them
    (* the clock, and what the calls on FrameBudget and RenderEngine did *)
    clock,              \* the last reading of time.perf_counter(), in ms
    phase_begun,        \* history: per phase name, the reading begin_phase(name) last took
    phase_ended,        \* history: the last end_phase(name): its name, what it returned,
                        \* the reading it took and the reading begin_phase(name) had taken
    ended_names,        \* history: the names given to end_phase since the last begin_frame
    engine_last,        \* history: the last call made on the RenderEngine
    frame_trace,        \* history: what the last RenderEngine.end_frame found and measured
    began               \* history: <<b>> when begin_frame was called since the last
                        \* end_frame, b telling whether it found commands in the queue,
                        \* else <<>>

psVars == <<config, particles, force_generators, frame_count, last_update, pre_update>>

pVars == <<p, p_method, p_calls>>

fbVars == <<target_fps, frame_start, quality_level, overrun_count, last_kind, q_hist,
           prev_quality, under_run, phase_start, phase_times>>

rqVars == <<commands, add_log, exec>>

nzVars == <<global_rng, noise>>

atVars == <<state, atm_call>>

lpVars == <<bodies, generator, loop_dt, loop_method, loop_pc, loop_steps, loop_start, loop_raised>>

rsVars == <<frame_times, layer_times, particle_counts, total_frames, sample_window, frame_log, layer_log>>

gpVars == <<skip_next, guard_fallback, guard_max_ms, guard_log>>

apVars == <<achievement, current, unlocked, unlock_time, increment_log>>

enVars == <<clock, phase_begun, phase_ended, ended_names, engine_last, frame_trace, began>>

vars == <<config, particles, force_generators, frame_count, last_update, pre_update,
          p, p_method, p_calls,
          target_fps, frame_start, quality_level, overrun_count, last_kind, q_hist, prev_quality, under_run, phase_start, phase_times,
          commands, add_log, exec,
          global_rng, noise,
          state, atm_call,
          bodies, generator, loop_dt, loop_method, loop_pc, loop_steps, loop_start, loop_raised,
          frame_times, layer_times, particle_counts, total_frames, sample_window, frame_log, layer_log,
          skip_next, guard_fallback, guard_max_ms, guard_log,
          achievement, current, unlocked, unlock_time, increment_log,
          clock, phase_begun, phase_ended, ended_names, engine_last, frame_trace, began>>

-----------------------------------------------------------------------------
(* Bounds of the model *)

MaxParticles == 2
MaxGenerators == 1
MaxFrames == 2
MaxCoord == 12
MaxAge == 4
MaxLog == 3
PermSize == 8
MaxSeed == 2
MaxSteps == 3
MaxSpeed == 100
MaxRecords == 4
MaxCalls == 4
MaxIncrements == 4
MaxRun == 36
MaxClock == 60
MaxQueued == 2
MaxEngineFrames == 2

-----------------------------------------------------------------------------
(* Integer helpers *)

Abs(a) == IF a < 0 THEN -a ELSE a

Sign(a) == IF a < 0 THEN -1 ELSE IF a > 0 THEN 1 ELSE 0

\* a / b truncated toward zero, b > 0
TruncDiv(a, b) == IF a >= 0 THEN a \div b ELSE -((-a) \div b)

RECURSIVE ISqrtFrom(_, _)
ISqrtFrom(n, r) == IF (r + 1) * (r + 1) > n THEN r ELSE ISqrtFrom(n, r + 1)

\* floor of the square root of n >= 0
ISqrt(n) == ISqrtFrom(n, 0)

-----------------------------------------------------------------------------
(* Vector2 *)

Vec(x, y) == [x |-> x, y |-> y]

VZero == Vec(0, 0)

VAdd(a, b) == Vec(a.x + b.x, a.y + b.y)

VSub(a, b) == Vec(a.x - b.x, a.y - b.y)

VMul(a, s) == Vec(a.x * s, a.y * s)

\* Vector2.__truediv__: the zero vector when the scalar is 0
VDiv(a, s) ==
    IF s = 0 THEN VZero
    ELSE Vec(Sign(s) * TruncDiv(a.x, Abs(s)), Sign(s) * TruncDiv(a.y, Abs(s)))

MagnitudeSquared(a) == a.x * a.x + a.y * a.y

\* magnitude > m, decided without the square root
MagnitudeExceeds(a, m) == m < 0 \/ MagnitudeSquared(a) > m * m

\* One component of normalized() * m: c * m / |a|, truncated toward zero.
\* floor(|c * m| / sqrt(s)) = floor(sqrt((c * m)^2 / s)) = ISqrt((c * m)^2 \div s).
ScaledComponent(c, m, s) ==
    Sign(c) * Sign(m) * ISqrt(((c * m) * (c * m)) \div s)

\* A variant of clamped() that limits each axis on its own.
ClampedPerAxis(a, m) ==
    Vec(IF Abs(a.x) > m THEN Sign(a.x) * m ELSE a.x,
        IF Abs(a.y) > m THEN Sign(a.y) * m ELSE a.y)

\* Vector2.clamped
Clamped(a, m) ==
    IF MagnitudeExceeds(a, m)
    THEN Vec(ScaledComponent(a.x, m, MagnitudeSquared(a)),
             ScaledComponent(a.y, m, MagnitudeSquared(a)))
    ELSE Vec(a.x, a.y)

-----------------------------------------------------------------------------
(* Particle.  drag_coefficient and buoyancy_factor are held in tenths. *)

IntegrationType == {"EULER", "SEMI_IMPLICIT", "VERLET", "RK4"}

\* Particle(...) followed by __post_init__: prev_position starts at position
NewParticle(pos, vel, mass, buoy, dragc, max_age) ==
    [position |-> pos, velocity |-> vel, acceleration |-> VZero,
     prev_position |-> Vec(pos.x, pos.y),
     mass |-> mass, drag_coefficient |-> dragc, buoyancy_factor |-> buoy,
     age |-> 0, max_age |-> max_age, alive |-> TRUE,
     accumulated_force |-> VZero]

\* force * inverse_mass, inverse_mass = 1/mass for mass > 0 and 0 otherwise
TimesInverseMass(f, mass) == IF mass > 0 THEN VDiv(f, mass) ELSE VZero

apply_force(q, f) == [q EXCEPT !.accumulated_force = VAdd(q.accumulated_force, f)]

\* A variant of clear_forces() that leaves the accumulator as it is.
ClearForcesKeep(q) == q

clear_forces(q) == [q EXCEPT !.accumulated_force = VZero]

integrate_euler(q, dt) ==
    LET a == TimesInverseMass(q.accumulated_force, q.mass)
        v == VAdd(q.velocity, VMul(a, dt))
    IN  [q EXCEPT !.acceleration = a, !.velocity = v,
                  !.position = VAdd(q.position, VMul(v, dt))]

integrate_semi_implicit(q, dt) ==
    LET a == TimesInverseMass(q.accumulated_force, q.mass)
        v == VAdd(q.velocity, VMul(a, dt))
    IN  [q EXCEPT !.acceleration = a, !.velocity = v,
                  !.position = VAdd(q.position, VMul(v, dt))]

integrate_verlet(q, dt) ==
    LET a == TimesInverseMass(q.accumulated_force, q.mass)
        temp == Vec(q.position.x, q.position.y)
        x == VAdd(VSub(VMul(q.position, 2), q.prev_position), VMul(a, dt * dt))
    IN  [q EXCEPT !.acceleration = a, !.position = x, !.prev_position = temp,
                  !.velocity = VDiv(VSub(x, temp), dt)]

\* The method dispatch of integrate(): RK4 has no branch and moves nothing.
IntegrateMotion(q, dt, method) ==
    IF method = "EULER" THEN integrate_euler(q, dt)
    ELSE IF method = "SEMI_IMPLICIT" THEN integrate_semi_implicit(q, dt)
    ELSE IF method = "VERLET" THEN integrate_verlet(q, dt)
    ELSE q

\* A variant of the lifetime check that waits for age to pass max_age.
CheckLifetimeLate(q) ==
    IF q.max_age > 0 /\ q.age > q.max_age THEN [q EXCEPT !.alive = FALSE] ELSE q

\* The lifetime check at the end of integrate()
CheckLifetime(q) ==
    IF q.max_age > 0 /\ q.age >= q.max_age THEN [q EXCEPT !.alive = FALSE] ELSE q

\* A variant of integrate() that forgets to advance the age.
IntegrateNoAging(q, dt, method) == CheckLifetime(IntegrateMotion(q, dt, method))

\* Particle.integrate
Integrate(q, dt, method) ==
    LET moved == IntegrateMotion(q, dt, method)
    IN  CheckLifetime([moved EXCEPT !.age = moved.age + 1])

Margin == 5

\* A variant of is_expired() that looks at the position only.
IsExpiredPositionOnly(q, b) ==
    \/ q.position.x < b[1] - Margin
    \/ q.position.x > b[3] + Margin
    \/ q.position.y < b[2] - Margin
    \/ q.position.y > b[4] + Margin

\* Particle.is_expired, b = <<x_min, y_min, x_max, y_max>>
IsExpired(q, b) ==
    IF ~q.alive THEN TRUE
    ELSE \/ q.position.x < b[1] - Margin
         \/ q.position.x > b[3] + Margin
         \/ q.position.y < b[2] - Margin
         \/ q.position.y > b[4] + Margin

-----------------------------------------------------------------------------
(* Force generators *)

\* A variant of GravityForce.apply that leaves the buoyancy out.
GravityApplyNoBuoyancy(g, q) ==
    apply_force(q, VMul(g.direction, q.mass * g.gravity))

\* GravityForce.apply: direction * (mass * gravity * (1 - buoyancy_factor))
GravityApply(g, q) ==
    apply_force(q, VMul(g.direction,
                        TruncDiv(q.mass * g.gravity * (10 - q.buoyancy_factor), 10)))

\* WindForce.apply without a turbulence function:
\* (base_velocity - velocity) * 0.1 * drag_coefficient
WindApply(g, q) ==
    LET relative == VSub(g.base_velocity, q.velocity)
    IN  apply_force(q, VDiv(VMul(relative, q.drag_coefficient), 100))

\* One component of normalized() * (n / d): c * n / (d * sqrt(s)), truncated
\* toward zero, s = |velocity|^2 > 0.  Computed by a plain quotient when s is
\* a perfect square.
AlongVelocity(c, n, d, s) ==
    IF ISqrt(s) * ISqrt(s) = s
    THEN Sign(c) * TruncDiv(Abs(c) * n, d * ISqrt(s))
    ELSE Sign(c) * ISqrt(((c * n) * (c * n)) \div (d * d * s))

\* DragForce.apply divides speed_sq by dt: ZeroDivisionError when dt is 0 and
\* the particle moves
DragRaises(q, dt) == MagnitudeSquared(q.velocity) > 0 /\ dt = 0

\* DragForce.apply for dt > 0; g.coefficient is held in hundredths.
\* speed_sq > 0.0001 is speed_sq > 0 on the grid.
\* drag_magnitude = coefficient * speed_sq * drag_coefficient, as n / 1000;
\* max_drag * 0.99 = speed_sq / dt * mass * 0.99, as 99 * speed_sq * mass / (100 * dt)
DragApply(g, q, dt) ==
    LET speed_sq == MagnitudeSquared(q.velocity)
        drag_n == g.coefficient * speed_sq * q.drag_coefficient
        cap_n == 99 * speed_sq * q.mass
        capped == drag_n * dt > cap_n * 10
        n == IF capped THEN cap_n ELSE drag_n
        d == IF capped THEN 100 * dt ELSE 1000
    IN  IF speed_sq > 0
        THEN apply_force(q, Vec(0 - AlongVelocity(q.velocity.x, n, d, speed_sq),
                                0 - AlongVelocity(q.velocity.y, n, d, speed_sq)))
        ELSE q

\* The noise_func a TurbulenceForce is constructed with:
\* "time" is lambda x, y, t: t and "one" is lambda x, y, t: 1.0
NoiseFunc(f, x, y, t) == IF f = "time" THEN t ELSE 1

\* TurbulenceForce.apply: self.time += dt * self.time_scale
TurbulenceTime(g, dt) == g.time + dt * g.time_scale

\* TurbulenceForce.apply, the particle: the noise is sampled at the advanced
\* self.time, for both components; nothing is applied without a noise_func.
\* (The samples are taken at position * 0.1, which the noise functions of the
\* model do not read.)
TurbulenceApply(g, q, dt) ==
    LET time == TurbulenceTime(g, dt)
        fx == NoiseFunc(g.noise_func, q.position.x, q.position.y, time) * g.strength
        fy == NoiseFunc(g.noise_func, q.position.x, q.position.y, time) * g.strength
    IN  IF g.noise_func = "none" THEN q ELSE apply_force(q, Vec(fx, fy))

\* generator.apply(particle, dt), the particle
GeneratorApply(g, q, dt) ==
    IF g.kind = "gravity" THEN GravityApply(g, q)
    ELSE IF g.kind = "drag" THEN DragApply(g, q, dt)
    ELSE IF g.kind = "turbulence" THEN TurbulenceApply(g, q, dt)
    ELSE WindApply(g, q)

\* generator.apply(particle, dt), the generator: only TurbulenceForce assigns
\* to a field of self
GeneratorAfter(g, dt) ==
    IF g.kind = "turbulence" THEN [g EXCEPT !.time = TurbulenceTime(g, dt)] ELSE g

RECURSIVE ApplyGenerators(_, _, _, _)
\* for generator in self.force_generators: generator.apply(particle, sub_dt)
ApplyGenerators(q, gens, i, dt) ==
    IF i > Len(gens) THEN q
    ELSE ApplyGenerators(GeneratorApply(gens[i], q, dt), gens, i + 1, dt)

-----------------------------------------------------------------------------
(* ParticleSystem *)

\* The bounds rectangle the system is constructed with
Bounds == <<0, 0, 4, 3>>

\* A variant of the velocity clamp that does nothing.
ClampVelocityOff(q, max_velocity) == q

\* if particle.velocity.magnitude > max_velocity: velocity = velocity.clamped(...)
ClampVelocity(q, max_velocity) ==
    IF MagnitudeExceeds(q.velocity, max_velocity)
    THEN [q EXCEPT !.velocity = Clamped(q.velocity, max_velocity)]
    ELSE q

\* The body of the inner loop of update() for one particle
Cycle(q, gens, sub_dt, cfg) ==
    ClampVelocity(
        Integrate(ApplyGenerators(clear_forces(q), gens, 1, sub_dt),
                  sub_dt, cfg.integration),
        cfg.max_velocity)

RECURSIVE Substeps(_, _, _, _, _)
\* for _ in range(substeps): for particle in self.particles: ...
Substeps(ps, gens, n, sub_dt, cfg) ==
    IF n <= 0 THEN ps
    ELSE Substeps([i \in 1..Len(ps) |-> Cycle(ps[i], gens, sub_dt, cfg)],
                  gens, n - 1, sub_dt, cfg)

\* The list rebuilt at the end of update()
RemoveExpired(ps, cfg) ==
    IF cfg.bounds_check
    THEN SelectSeq(ps, LAMBDA q : ~IsExpired(q, Bounds))
    ELSE ps

InModelRange(q) ==
    /\ Abs(q.position.x) <= MaxCoord
    /\ Abs(q.position.y) <= MaxCoord

SubstepValues == {1, 2}
MaxVelocityValues == {3}
SpawnVelocities == {Vec(0, 0), Vec(3, 4)}

\* The particles spawn() is given: at rest and immortal, faster than max_velocity
\* and living two cycles, living three cycles, and outside the bounds plus margin
SpawnValues ==
    {NewParticle(Vec(2, 1), Vec(0, 0), 1, 0, 10, -1),
     NewParticle(Vec(2, 1), Vec(3, 4), 1, 0, 10, 2),
     NewParticle(Vec(4, 3), Vec(-1, 0), 1, 0, 10, 3),
     NewParticle(Vec(10, 1), Vec(0, 0), 1, 0, 10, -1)}
GeneratorValues ==
    {[kind |-> "gravity", gravity |-> 1, direction |-> Vec(0, 1)],
     [kind |-> "wind", base_velocity |-> Vec(20, 0)]}

PSInit ==
    /\ config \in [integration : IntegrationType, substeps : SubstepValues,
                    max_velocity : MaxVelocityValues, bounds_check : BOOLEAN]
    /\ particles = <<>>
    /\ force_generators = <<>>
    /\ frame_count = 0
    /\ last_update = -1
    /\ pre_update = <<>>

\* ParticleSystem.add_force_generator
AddForceGenerator ==
    /\ Len(force_generators) < MaxGenerators
    /\ \E g \in GeneratorValues : force_generators' = Append(force_generators, g)
    /\ last_update' = -1
    /\ pre_update' = <<>>
    /\ UNCHANGED <<config, particles, frame_count>>

\* ParticleSystem.spawn
Spawn ==
    /\ Len(particles) < MaxParticles
    /\ \E q \in SpawnValues : particles' = Append(particles, q)
    /\ last_update' = -1
    /\ pre_update' = <<>>
    /\ UNCHANGED <<config, force_generators, frame_count>>

\* ParticleSystem.update(dt), dt a multiple of substeps so that sub_dt is whole
Update ==
    /\ frame_count < MaxFrames
    /\ \A i \in 1..Len(particles) : InModelRange(particles[i])
    /\ \E sub_dt \in {1} :
          particles' = RemoveExpired(
              Substeps(particles, force_generators, config.substeps, sub_dt, config),
              config)
    /\ frame_count' = frame_count + 1
    /\ last_update' = config.substeps
    /\ pre_update' = particles
    /\ UNCHANGED <<config, force_generators>>

\* ParticleSystem.clear
Clear ==
    /\ particles' = <<>>
    /\ last_update' = -1
    /\ pre_update' = <<>>
    /\ UNCHANGED <<config, force_generators, frame_count>>

-----------------------------------------------------------------------------
(* A particle driven directly: clear_forces / apply / integrate *)

PMaxAges == {-1, 0, 1, 3}
PForces == {Vec(-3, 1)}

PInit ==
    /\ p \in {NewParticle(Vec(0, 0), vel, 1, 0, 10, ma) :
                 vel \in SpawnVelocities, ma \in PMaxAges}
    /\ p_method \in IntegrationType
    /\ p_calls = 0

PClearForces ==
    /\ p' = clear_forces(p)
    /\ UNCHANGED <<p_method, p_calls>>

PApplyForce ==
    /\ p.accumulated_force = VZero
    /\ \E f \in PForces : p' = apply_force(p, f)
    /\ UNCHANGED <<p_method, p_calls>>

PIntegrate ==
    /\ p.age < MaxAge
    /\ \E dt \in {1, 2} : p' = Integrate(p, dt, p_method)
    /\ p_calls' = p_calls + 1
    /\ UNCHANGED p_method

-----------------------------------------------------------------------------
(* FrameBudget.  Times are whole milliseconds; quality_level is in hundredths. *)

QualityFloor == 30
QualityCeiling == 100
QualityDrop == 10
QualityRise == 2
OverrunLimit == 5

Max(a, b) == IF a > b THEN a ELSE b

Min(a, b) == IF a < b THEN a ELSE b

\* frame_time_ms > frame_budget_ms * 1.2, with frame_budget_ms = 1000 / target_fps
OverBudget(frame_time_ms, fps) == frame_time_ms * fps * 10 > 1000 * 12

\* frame_time_ms < frame_budget_ms * 0.7
UnderBudget(frame_time_ms, fps) == frame_time_ms * fps * 10 < 1000 * 7

FrameKind(frame_time_ms, fps) ==
    IF OverBudget(frame_time_ms, fps) THEN "over"
    ELSE IF UnderBudget(frame_time_ms, fps) THEN "under"
    ELSE "within"

\* A variant of the lowering step without the floor.
LoweredNoFloor(q) == q - QualityDrop

\* max(0.3, quality_level - 0.1)
Lowered(q) == Max(QualityFloor, q - QualityDrop)

\* A variant of the raising step without the ceiling.
RaisedNoCeiling(q) == q + QualityRise

\* min(1.0, quality_level + 0.02)
Raised(q) == Min(QualityCeiling, q + QualityRise)

\* A variant of the overrun test that lowers quality one overrun earlier.
OverrunLimitReachedEarly(count) == count >= OverrunLimit

\* A variant of the overrun test that lowers quality one overrun later.
OverrunLimitReachedLate(count) == count > OverrunLimit + 1

\* if self.overrun_count > 5
OverrunLimitReached(count) == count > OverrunLimit

\* FrameBudget.adjust_quality: the new <<quality_level, overrun_count>>
AdjustQuality(q, count, frame_time_ms, fps) ==
    IF OverBudget(frame_time_ms, fps)
    THEN IF OverrunLimitReached(count + 1)
         THEN <<Lowered(q), 0>>
         ELSE <<q, count + 1>>
    ELSE IF UnderBudget(frame_time_ms, fps)
         THEN <<Raised(q), Max(0, count - 1)>>
         ELSE <<q, count>>

\* The last six entries of a sequence
LastSix(h) == IF Len(h) <= 6 THEN h ELSE SubSeq(h, Len(h) - 5, Len(h))

\* What feeding one frame time does to the state and to the history
Feed(frame_time_ms) ==
    LET r == AdjustQuality(quality_level, overrun_count, frame_time_ms, target_fps)
    IN  /\ quality_level' = r[1]
        /\ overrun_count' = r[2]
        /\ last_kind' = FrameKind(frame_time_ms, target_fps)
        /\ q_hist' = IF OverBudget(frame_time_ms, target_fps)
                      THEN LastSix(Append(q_hist, quality_level))
                      ELSE <<>>
        /\ prev_quality' = quality_level
        /\ under_run' = IF UnderBudget(frame_time_ms, target_fps)
                        THEN Min(under_run + 1, MaxRun)
                        ELSE 0

FpsValues == {25, 50}
FrameTimes == {10, 14, 24, 25, 50}
ClockValues == {0, 10, 25, 50}

FBInit ==
    /\ target_fps \in FpsValues
    /\ frame_start = 0
    /\ quality_level = QualityCeiling
    /\ overrun_count = 0
    /\ last_kind = "none"
    /\ q_hist = <<>>
    /\ prev_quality = QualityCeiling
    /\ under_run = 0
    /\ phase_start = 0
    /\ phase_times = <<>>

\* FrameBudget.begin_frame: frame_start = time.perf_counter(); phase_times.clear()
FBBeginFrame ==
    /\ \E now \in ClockValues : frame_start' = now
    /\ phase_times' = <<>>
    /\ UNCHANGED <<target_fps, quality_level, overrun_count, last_kind, q_hist,
                   prev_quality, under_run, phase_start>>

\* FrameBudget.adjust_quality(frame_time_ms), called directly
FBAdjustQuality ==
    /\ \E t \in FrameTimes : Feed(t)
    /\ UNCHANGED <<target_fps, frame_start, phase_start, phase_times>>

\* FrameBudget.end_frame: the elapsed time is fed to adjust_quality
FBEndFrame ==
    /\ \E now \in ClockValues : now >= frame_start /\ Feed(now - frame_start)
    /\ UNCHANGED <<target_fps, frame_start, phase_start, phase_times>>

-----------------------------------------------------------------------------
(* RenderQueue *)

\* RenderLayer values
BACKGROUND == 0
PRECIPITATION == 20
UI_FOREGROUND == 60

RenderCommand(x, y, char, colour, layer) ==
    [x |-> x, y |-> y, char |-> char, colour |-> colour, attr |-> 0, layer |-> layer]

\* A variant of the key that leaves the layer out.
KeyWithoutLayer(cmd) == <<cmd.x, cmd.y, 0>>

\* key = (cmd.x, cmd.y, cmd.layer.value)
KeyOf(cmd) == <<cmd.x, cmd.y, cmd.layer>>

\* d[key] = value on a dict: an existing key keeps its place, a new key goes last
DictSet(d, key, value) ==
    IF \E i \in 1..Len(d) : d[i].key = key
    THEN [i \in 1..Len(d) |-> IF d[i].key = key THEN [key |-> key, value |-> value]
                                                 ELSE d[i]]
    ELSE Append(d, [key |-> key, value |-> value])

\* self.commands.values()
Values(d) == [i \in 1..Len(d) |-> d[i].value]

\* RenderQueue.add
QueueAdd(d, cmd) == DictSet(d, KeyOf(cmd), cmd)

RECURSIVE QueueAddText(_, _, _, _, _, _, _)
\* RenderQueue.add_text: for i, char in enumerate(text): add(x + i, y, char, ...)
QueueAddText(d, x, y, text, colour, layer, i) ==
    IF i > Len(text) THEN d
    ELSE QueueAddText(QueueAdd(d, RenderCommand(x + (i - 1), y, text[i], colour, layer)),
                      x, y, text, colour, layer, i + 1)

\* The commands add_text hands to add(), in order
TextCommands(x, y, text, colour, layer) ==
    [i \in 1..Len(text) |-> RenderCommand(x + (i - 1), y, text[i], colour, layer)]

\* One step of a stable sort: c goes behind every element whose layer is <= its own
InsertByLayer(sorted, c) ==
    LET n == Cardinality({j \in 1..Len(sorted) : sorted[j].layer <= c.layer})
    IN  SubSeq(sorted, 1, n) \o <<c>> \o SubSeq(sorted, n + 1, Len(sorted))

RECURSIVE SortByLayer(_, _, _)
SortByLayer(cmds, i, acc) ==
    IF i > Len(cmds) THEN acc
    ELSE SortByLayer(cmds, i + 1, InsertByLayer(acc, cmds[i]))

\* A variant of get_sorted() that returns the commands in insertion order.
GetUnsorted(d) == Values(d)

\* RenderQueue.get_sorted: sorted(values, key=layer.value), a stable sort
GetSorted(d) == SortByLayer(Values(d), 1, <<>>)

\* A variant of the handler that lets the error out of execute().
OnPrintErrorRaise(acc) == [acc EXCEPT !.raised = TRUE]

\* except: pass
OnPrintError(acc) == acc

RECURSIVE ExecuteFrom(_, _, _, _)
\* The loop of execute(): fails holds the places whose print_at raises
ExecuteFrom(cmds, i, fails, acc) ==
    IF i > Len(cmds) \/ acc.raised THEN acc
    ELSE LET tried == [acc EXCEPT !.attempted = Append(@, cmds[i])]
         IN  IF i \in fails
             THEN ExecuteFrom(cmds, i + 1, fails, OnPrintError(tried))
             ELSE ExecuteFrom(cmds, i + 1, fails,
                              [tried EXCEPT !.drawn = Append(@, cmds[i]),
                                            !.count = @ + 1])

NoExec ==
    [done |-> FALSE, attempted |-> <<>>, drawn |-> <<>>, count |-> 0,
     raised |-> FALSE, fails |-> {}, before |-> <<>>]

XValues == {0}
YValues == {0}
LayerValues == {BACKGROUND, PRECIPITATION, UI_FOREGROUND}
CharValues == {"X", "Y"}
TextValues == {<<"X", "Y">>, <<"Y", "Y">>}

RQInit ==
    /\ commands = <<>>
    /\ add_log = <<>>
    /\ exec = NoExec

\* RenderQueue.add
RQAdd ==
    /\ Len(add_log) < MaxLog
    /\ \E x \in XValues, y \in YValues, c \in CharValues, l \in LayerValues :
          LET cmd == RenderCommand(x, y, c, 7, l)
          IN  /\ commands' = QueueAdd(commands, cmd)
              /\ add_log' = Append(add_log, cmd)
    /\ exec' = NoExec

\* RenderQueue.add_text
RQAddText ==
    /\ \E x \in XValues, y \in YValues, t \in TextValues, l \in LayerValues :
          /\ Len(add_log) + Len(t) <= MaxLog
          /\ commands' = QueueAddText(commands, x, y, t, 7, l, 1)
          /\ add_log' = add_log \o TextCommands(x, y, t, 7, l)
    /\ exec' = NoExec

\* RenderQueue.clear
RQClear ==
    /\ commands' = <<>>
    /\ add_log' = <<>>
    /\ exec' = NoExec

\* RenderQueue.execute(screen): screen.print_at raises for any of the commands
RQExecute ==
    /\ \E fails \in SUBSET (1..Len(commands)) :
          exec' = [ExecuteFrom(GetSorted(commands), 1, fails,
                               [NoExec EXCEPT !.done = TRUE])
                   EXCEPT !.fails = fails, !.before = commands]
    /\ UNCHANGED <<commands, add_log>>

-----------------------------------------------------------------------------
(* Noise generators.  The permutation table has PermSize entries (256 in the     *)
(* program) and is held doubled.  random.Random is the standard library's        *)
(* generator; the model puts a linear congruential generator in its place: what  *)
(* matters is that its stream is a function of the seed alone.                   *)

\* The next state of a generator
RngNext(st) == (st * 5 + 3) % 8

\* random.Random(seed): the state a seed starts the stream in
RngSeeded(seed) == (seed * 3 + 1) % 8

\* The sequence a with the entries at i and j (both from 1) exchanged
Swapped(a, i, j) ==
    [k \in 1..Len(a) |-> IF k = i THEN a[j] ELSE IF k = j THEN a[i] ELSE a[k]]

RECURSIVE ShuffleFrom(_, _, _)
\* rng.shuffle(perm): for i in reversed(range(1, n)): j = randbelow(i + 1); swap
ShuffleFrom(a, i, st) ==
    IF i < 1 THEN a
    ELSE ShuffleFrom(Swapped(a, i + 1, (RngNext(st) % (i + 1)) + 1), i - 1, RngNext(st))

\* A variant of the table generation that shuffles with the module-level generator.
GenerateFromGlobalRng(seed) ==
    LET perm == ShuffleFrom([k \in 1..PermSize |-> k - 1], PermSize - 1, global_rng)
    IN  perm \o perm

\* PerlinNoise._generate_permutation_table, and the same lines of SimplexNoise.__init__
GeneratePermutationTable(seed) ==
    LET perm == ShuffleFrom([k \in 1..PermSize |-> k - 1], PermSize - 1, RngSeeded(seed))
    IN  perm \o perm

\* self._perm_mod12 = [x % 12 for x in self._perm]
PermMod12(perm) == [k \in 1..Len(perm) |-> perm[k] % 12]

\* table[i] with Python's indices from 0
At(table, i) == table[i + 1]

\* _GRADIENTS_2D and the first eight entries of _GRAD3
Gradients ==
    <<Vec(1, 1), Vec(-1, 1), Vec(1, -1), Vec(-1, -1),
      Vec(1, 0), Vec(-1, 0), Vec(0, 1), Vec(0, -1)>>

\* _GRAD3: twelve entries, the last four repeat the first four
Grad3 == Gradients \o SubSeq(Gradients, 1, 4)

\* PerlinNoise._fade(t) for t = n/2, in sixteenths:
\* t^3 (t (6t - 15) + 10) = n^3 (3 n^2 - 15 n + 20) / 16
Fade16(n) == n * n * n * (3 * n * n - 15 * n + 20)

\* PerlinNoise._gradient(hash_val, x, y), x and y in halves, result in halves
Gradient(hash_val, x, y) ==
    At(Gradients, hash_val % 8).x * x + At(Gradients, hash_val % 8).y * y

\* A variant of _lerp that interpolates from b to a.
Lerp16Swapped(t, a, b) == 16 * b + t * (a - b)

\* PerlinNoise._lerp(t, a, b) = a + t (b - a), t in sixteenths: the result is in
\* sixteenths of the unit of a and b
Lerp16(t, a, b) == 16 * a + t * (b - a)

\* PerlinNoise.sample at (hx / 2, hy / 2), in units of 1/512
PerlinSample(perm, hx, hy) ==
    LET xi == (hx \div 2) % PermSize
        yi == (hy \div 2) % PermSize
        xf == hx - 2 * (hx \div 2)
        yf == hy - 2 * (hy \div 2)
        u  == Fade16(xf)
        v  == Fade16(yf)
        aa == At(perm, At(perm, xi) + yi)
        ab == At(perm, At(perm, xi) + yi + 1)
        ba == At(perm, At(perm, xi + 1) + yi)
        bb == At(perm, At(perm, xi + 1) + yi + 1)
        x1 == Lerp16(u, Gradient(aa, xf, yf), Gradient(ba, xf - 2, yf))
        x2 == Lerp16(u, Gradient(ab, xf, yf - 2), Gradient(bb, xf - 2, yf - 2))
    IN  Lerp16(v, x1, x2)

\* floor(c + (x + y) * _F2) at the point (hx / 2, hy / 2), c = hc / 2:
\* c + (x + y)(sqrt(3) - 1)/2 = (2 hc - m + sqrt(3 m^2)) / 4 with m = hx + hy, and the
\* root is irrational unless m = 0
SkewedFloor(hc, m) ==
    IF m >= 0 THEN (2 * hc - m + ISqrt(3 * m * m)) \div 4
    ELSE (2 * hc - m - ISqrt(3 * m * m) - 1) \div 4

\* SimplexNoise.sample at (hx / 2, hy / 2): the three gradient indices it reads from
\* the table.  They are all of the result that depends on the table; the weights
\* they are combined with are a function of the point alone.  (Where x0 = y0 in
\* exact arithmetic and the point is not the origin, rounding decides the
\* comparison x0 > y0 in the program; SamplePoints holds no such point.)
SimplexSample(perm, perm_mod12, hx, hy) ==
    LET i  == SkewedFloor(hx, hx + hy)
        j  == SkewedFloor(hy, hx + hy)
        lower == hx - 2 * i > hy - 2 * j
        i1 == IF lower THEN 1 ELSE 0
        j1 == IF lower THEN 0 ELSE 1
        ii == i % PermSize
        jj == j % PermSize
    IN  <<At(perm_mod12, ii + At(perm, jj)),
          At(perm_mod12, ii + i1 + At(perm, jj + j1)),
          At(perm_mod12, ii + 1 + At(perm, jj + 1))>>

SeedValues == 0..MaxSeed
NoiseKinds == {"perlin", "simplex"}
SamplePoints == {<<0, 0>>, <<2, 1>>, <<-1, 4>>}
\* A point with whole coordinates, one negative and one past the table size:
\* (-1, PermSize + 1).  Only PerlinNoise is sampled there: SimplexNoise has
\* x0 = y0 in exact arithmetic at every such point.
LatticePoints == {<<-2, 2 * PermSize + 2>>}
AllPoints == SamplePoints \cup LatticePoints
PointsOf(kind) == IF kind = "perlin" THEN AllPoints ELSE SamplePoints
Generators == {1, 2}
NotSampled == <<>>

NoGenerator ==
    [built |-> FALSE, kind |-> "perlin", seed |-> 0, perm |-> <<>>,
     perm_mod12 |-> <<>>, built_perm |-> <<>>,
     out |-> [pt \in AllPoints |-> NotSampled]]

\* PerlinNoise(seed) / SimplexNoise(seed) with the seed known
Constructed(kind, seed) ==
    LET table == GeneratePermutationTable(seed)
    IN  [built |-> TRUE, kind |-> kind, seed |-> seed,
         perm |-> table,
         perm_mod12 |-> IF kind = "simplex" THEN PermMod12(table) ELSE <<>>,
         built_perm |-> table,
         out |-> [pt \in AllPoints |-> NotSampled]]

NZInit ==
    /\ global_rng \in {0, 1}
    /\ noise = [g \in Generators |-> NoGenerator]

\* PerlinNoise(seed=s) / SimplexNoise(seed=s); an object is constructed once
NZConstruct ==
    /\ \E g \in Generators, kind \in NoiseKinds, seed \in SeedValues :
          /\ ~noise[g].built
          /\ noise' = [noise EXCEPT ![g] = Constructed(kind, seed)]
    /\ UNCHANGED global_rng

\* PerlinNoise() / SimplexNoise(): seed = int(random.random() * 2**31)
NZConstructUnseeded ==
    /\ \E g \in Generators, kind \in NoiseKinds :
          /\ ~noise[g].built
          /\ noise' = [noise EXCEPT
                          ![g] = Constructed(kind, RngNext(global_rng) % (MaxSeed + 1))]
    /\ global_rng' = RngNext(global_rng)

\* generator.sample(x, y)
NZSample ==
    /\ \E g \in Generators, pt \in AllPoints :
          /\ noise[g].built
          /\ pt \in PointsOf(noise[g].kind)
          /\ noise' = [noise EXCEPT ![g].out[pt] =
                IF noise[g].kind = "perlin"
                THEN <<PerlinSample(noise[g].perm, pt[1], pt[2])>>
                ELSE SimplexSample(noise[g].perm, noise[g].perm_mod12, pt[1], pt[2])]
    /\ UNCHANGED global_rng

-----------------------------------------------------------------------------
(* engine/physics/atmosphere.py: the stability classification and the      *)
(* convenience functions.  A temperature is a whole number of degrees      *)
(* Celsius on input and is returned in thousandths of a degree; a wind     *)
(* speed is held in tenths of m/s; humidity and cloud cover are whole      *)
(* percent.  The polynomials are evaluated term by term in fixed point,    *)
(* each quotient truncated toward zero, which stays within 0.01 degree of  *)
(* the floating-point value over the inputs drawn here.                    *)

StabilityClass ==
    {"VERY_UNSTABLE", "UNSTABLE", "SLIGHTLY_UNSTABLE",
     "NEUTRAL", "SLIGHTLY_STABLE", "STABLE"}

AtmosphericState(wind, clouds) ==
    [wind_speed_ms |-> wind, cloud_cover_percent |-> clouds]

\* AtmosphericModel.classify_stability, on self.state = st
classify_stability(st) ==
    LET wind == st.wind_speed_ms
        clouds == st.cloud_cover_percent
    IN  IF wind < 20
        THEN IF clouds < 30 THEN "VERY_UNSTABLE"
             ELSE IF clouds < 70 THEN "UNSTABLE"
             ELSE "NEUTRAL"
        ELSE IF wind < 50
        THEN IF clouds < 30 THEN "UNSTABLE"
             ELSE IF clouds < 70 THEN "SLIGHTLY_UNSTABLE"
             ELSE "NEUTRAL"
        ELSE IF wind < 80
        THEN "NEUTRAL"
        ELSE IF clouds > 70 THEN "NEUTRAL"
             ELSE "SLIGHTLY_STABLE"

\* wind_kmh = wind_speed_ms * 3.6, in hundredths of km/h
WindKmh(wind_speed_ms) == wind_speed_ms * 36

\* wind_kmh ** 0.16 in ten-thousandths, tabulated at the wind speeds drawn
\* below that pass the guard of calculate_wind_chill
Pow016(wind_kmh) ==
    CASE wind_kmh = 504 -> 12954
      [] wind_kmh = 720 -> 13714
      [] wind_kmh = 1800 -> 15880
      [] wind_kmh = 3600 -> 17742

\* the guard of calculate_wind_chill with the bound on the temperature made
\* strict
WindChillPassThroughStrict(temp_c, wind_kmh) == temp_c > 10 \/ wind_kmh < 480

\* calculate_wind_chill: `if temp_c >= 10 or wind_kmh < 4.8`
WindChillPassThrough(temp_c, wind_kmh) == temp_c >= 10 \/ wind_kmh < 480

\* calculate_wind_chill(temp_c, wind_speed_ms), in thousandths of a degree
calculate_wind_chill(temp_c, wind_speed_ms) ==
    LET wind_kmh == WindKmh(wind_speed_ms)
    IN  IF WindChillPassThrough(temp_c, wind_kmh)
        THEN temp_c * 1000
        ELSE LET pw == Pow016(wind_kmh)
             IN  13120 + TruncDiv(6215 * temp_c, 10)
                       - TruncDiv(1137 * pw, 1000)
                       + TruncDiv(3965 * temp_c * pw, 100000)

\* the guard of calculate_heat_index as its docstring states the domain
HeatIndexPassThroughDomain(temp_c, humidity) == temp_c <= 27 \/ humidity <= 40

\* calculate_heat_index: `if temp_c < 27`
HeatIndexPassThrough(temp_c, humidity) == temp_c < 27

\* the NOAA polynomial in thousandths of a degree Fahrenheit; tf is the
\* Fahrenheit temperature in tenths
HeatIndexF(tf, rh) ==
    LET t2 == tf * tf
        r2 == rh * rh
        a == tf * rh
        c2 == 204 * tf + TruncDiv(901 * tf, 1000) + TruncDiv(523 * tf, 1000000)
        c3 == 10143 * rh + TruncDiv(331 * rh, 1000)
        c4 == 22 * a + TruncDiv(475 * a, 1000) + TruncDiv(541 * a, 1000000)
        c5 == TruncDiv(68 * t2, 1000) + TruncDiv(378 * t2, 1000000)
                + TruncDiv(TruncDiv(300 * t2, 1000), 1000000)
        c6 == 54 * r2 + TruncDiv(817 * r2, 1000) + TruncDiv(170 * r2, 1000000)
        u == t2 + TruncDiv(228 * t2, 1000) + TruncDiv(740 * t2, 1000000)
        c7 == TruncDiv(u * rh, 100)
        v == 852 * tf + TruncDiv(820 * tf, 1000)
        c8 == TruncDiv(TruncDiv(v * rh, 100) * rh, 100)
        w == TruncDiv(199 * t2, 1000)
        c9 == TruncDiv(TruncDiv(w * rh, 100) * rh, 100)
    IN  (0 - 42379) + c2 + c3 - c4 - c5 - c6 + c7 + c8 - c9

\* calculate_heat_index(temp_c, humidity), in thousandths of a degree
calculate_heat_index(temp_c, humidity) ==
    IF HeatIndexPassThrough(temp_c, humidity)
    THEN temp_c * 1000
    ELSE LET temp_f == temp_c * 18 + 320
             hi_f == HeatIndexF(temp_f, humidity)
         IN  TruncDiv((hi_f - 32000) * 5, 9)

\* inputs
WindSpeeds == {0, 10, 13, 14, 20, 50, 100}
StateWindSpeeds == {0, 19, 20, 49, 50, 79, 80, 120}
CloudCovers == {0, 29, 30, 69, 70, 71, 100}
ChillTemperatures == {-10, 0, 9, 10, 15}
HeatTemperatures == {20, 26, 27, 28, 30, 35}
Humidities == {0, 20, 40, 41, 60, 90}

NoCall == [fn |-> "none", args |-> <<>>, result |-> 0]

\* AtmosphericModel(state)
ATInit ==
    /\ state \in {AtmosphericState(w, c) : w \in StateWindSpeeds, c \in CloudCovers}
    /\ atm_call = NoCall

\* model.classify_stability()
ATClassifyStability ==
    /\ atm_call' = [fn |-> "classify_stability",
                    args |-> <<state.wind_speed_ms, state.cloud_cover_percent>>,
                    result |-> classify_stability(state)]
    /\ UNCHANGED state

\* calculate_wind_chill(temp_c, wind_speed_ms)
ATWindChill ==
    /\ \E t \in ChillTemperatures, w \in WindSpeeds :
          atm_call' = [fn |-> "calculate_wind_chill", args |-> <<t, w>>,
                       result |-> calculate_wind_chill(t, w)]
    /\ UNCHANGED state

\* calculate_heat_index(temp_c, humidity)
ATHeatIndex ==
    /\ \E t \in HeatTemperatures, h \in Humidities :
          atm_call' = [fn |-> "calculate_heat_index", args |-> <<t, h>>,
                       result |-> calculate_heat_index(t, h)]
    /\ UNCHANGED state

-----------------------------------------------------------------------------
(* Particles stepped by hand, the way the unit tests step them:            *)
(*     p.clear_forces(); generator.apply(p, dt); p.integrate(dt, method)   *)
(* for one particle or for two particles side by side.                     *)

\* generator.apply(particle, dt) raises
GeneratorRaises(g, q, dt) == g.kind = "drag" /\ DragRaises(q, dt)

Dot(a, b) == a.x * b.x + a.y * b.y

InLoopRange(q) ==
    /\ Abs(q.velocity.x) <= MaxSpeed
    /\ Abs(q.velocity.y) <= MaxSpeed

RECURSIVE ApplyEach(_, _, _, _)
\* for p in particles: generator.apply(p, dt), from particle i on
ApplyEach(g, qs, i, dt) ==
    IF i > Len(qs) THEN [bodies |-> qs, generator |-> g]
    ELSE ApplyEach(GeneratorAfter(g, dt),
                   [qs EXCEPT ![i] = GeneratorApply(g, qs[i], dt)], i + 1, dt)

\* inputs: a moving particle under DragForce(0.1) or DragForce(1.0), a
\* particle at rest next to its buoyant twin under GravityForce, and two equal
\* particles under one TurbulenceForce(noise_func, strength=1.0, time_scale=1.0)
DragVelocities == {Vec(10, 0), Vec(20, 0), Vec(30, 0), Vec(0, -20)}
DragCoefficients == {10, 100}
GravityValues == {5, 10}
MassValues == {1, 2}
DtValues == {0, 1, 2}
NoiseFuncs == {"none", "time", "one"}

LoopScenarios ==
    {[bodies |-> <<NewParticle(VZero, v, 1, 0, 10, -1)>>,
      generator |-> [kind |-> "drag", coefficient |-> c]] :
        v \in DragVelocities, c \in DragCoefficients}
    \cup
    {[bodies |-> <<NewParticle(VZero, VZero, m, 0, 10, -1),
                   NewParticle(VZero, VZero, m, 8, 10, -1)>>,
      generator |-> [kind |-> "gravity", gravity |-> g, direction |-> Vec(0, 1)]] :
        m \in MassValues, g \in GravityValues}
    \cup
    {[bodies |-> <<NewParticle(VZero, VZero, 1, 0, 10, -1),
                   NewParticle(VZero, VZero, 1, 0, 10, -1)>>,
      generator |-> [kind |-> "turbulence", noise_func |-> f,
                     strength |-> 1, time_scale |-> 1, time |-> 0]] :
        f \in NoiseFuncs}

LPInit ==
    /\ \E s \in LoopScenarios :
          /\ bodies = s.bodies
          /\ generator = s.generator
          /\ loop_start = s.bodies
    /\ loop_dt \in DtValues
    /\ loop_method \in IntegrationType
    /\ loop_pc = "clear"
    /\ loop_steps = 0
    /\ loop_raised = "none"

\* p.clear_forces() on each particle
LPClear ==
    /\ loop_pc = "clear"
    /\ loop_steps < MaxSteps
    /\ bodies' = [i \in 1..Len(bodies) |-> clear_forces(bodies[i])]
    /\ loop_start' = bodies
    /\ loop_pc' = "apply"
    /\ UNCHANGED <<generator, loop_dt, loop_method, loop_steps, loop_raised>>

\* generator.apply(p, dt) on each particle; an exception ends the loop
LPApply ==
    /\ loop_pc = "apply"
    /\ IF \E i \in 1..Len(bodies) : GeneratorRaises(generator, bodies[i], loop_dt)
       THEN /\ loop_raised' = "ZeroDivisionError"
            /\ loop_pc' = "raised"
            /\ UNCHANGED <<bodies, generator>>
       ELSE /\ bodies' = ApplyEach(generator, bodies, 1, loop_dt).bodies
            /\ generator' = ApplyEach(generator, bodies, 1, loop_dt).generator
            /\ loop_pc' = "integrate"
            /\ UNCHANGED loop_raised
    /\ UNCHANGED <<loop_dt, loop_method, loop_steps, loop_start>>

\* p.integrate(dt, method) on each particle
LPIntegrate ==
    /\ loop_pc = "integrate"
    /\ LET stepped == [i \in 1..Len(bodies) |->
                          Integrate(bodies[i], loop_dt, loop_method)]
       IN  /\ \A i \in 1..Len(bodies) : InLoopRange(stepped[i])
           /\ bodies' = stepped
    /\ loop_steps' = loop_steps + 1
    /\ loop_pc' = "clear"
    /\ UNCHANGED <<generator, loop_dt, loop_method, loop_start, loop_raised>>

-----------------------------------------------------------------------------
(* RenderStats.  Times are whole numbers of milliseconds. *)

\* layer_name in self.layer_times
DictHas(d, key) == \E i \in 1..Len(d) : d[i].key = key

\* self.layer_times[layer_name]
DictGet(d, key) == d[CHOOSE i \in 1..Len(d) : d[i].key = key].value

\* A variant of the trim that pops the newest entry.
TrimNewest(list, window) ==
    IF Len(list) > window THEN SubSeq(list, 1, Len(list) - 1) ELSE list

\* if len(list) > self.sample_window: list.pop(0)
Trim(list, window) ==
    IF Len(list) > window THEN Tail(list) ELSE list

\* inputs
WindowValues == {1, 2}
FrameRecords == {<<16, 0>>, <<33, 7>>}
LayerRecords == {<<"sidebar", 1>>, <<"sidebar", 2>>, <<"footer", 3>>}

\* RenderStats(sample_window=...)
RSInit ==
    /\ frame_times = <<>>
    /\ layer_times = <<>>
    /\ particle_counts = <<>>
    /\ total_frames = 0
    /\ sample_window \in WindowValues
    /\ frame_log = <<>>
    /\ layer_log = <<>>

\* stats.record_frame(frame_time, particle_count)
RSRecordFrame ==
    /\ Len(frame_log) < MaxRecords
    /\ \E r \in FrameRecords :
          /\ total_frames' = total_frames + 1
          /\ frame_times' = Trim(Append(frame_times, r[1]), sample_window)
          /\ particle_counts' = Trim(Append(particle_counts, r[2]), sample_window)
          /\ frame_log' = Append(frame_log, r)
    /\ UNCHANGED <<layer_times, sample_window, layer_log>>

\* stats.record_layer(layer_name, render_time)
RSRecordLayer ==
    /\ Len(layer_log) < MaxRecords
    /\ \E r \in LayerRecords :
          LET created == IF DictHas(layer_times, r[1]) THEN layer_times
                         ELSE DictSet(layer_times, r[1], <<>>)
              appended == Append(DictGet(created, r[1]), r[2])
          IN  /\ layer_times' = DictSet(created, r[1], Trim(appended, sample_window))
              /\ layer_log' = Append(layer_log, r)
    /\ UNCHANGED <<frame_times, particle_counts, total_frames, sample_window, frame_log>>

-----------------------------------------------------------------------------
(* guard_performance.  Times are whole milliseconds. *)

\* A variant of the test that also counts a call that took exactly max_ms.
GuardExceededOrEqual(elapsed, max_ms) == elapsed >= max_ms

\* if elapsed > max_ms
GuardExceeded(elapsed, max_ms) == elapsed > max_ms

\* inputs
GuardMaxValues == {16}
ElapsedValues == {10, 16, 17}

\* @guard_performance(max_ms, fallback) applied to a function
GPInit ==
    /\ skip_next = FALSE
    /\ guard_fallback \in BOOLEAN
    /\ guard_max_ms \in GuardMaxValues
    /\ guard_log = <<>>

\* wrapper(...) taking the branch `if skip_next and fallback`
GPCallFallback ==
    /\ Len(guard_log) < MaxCalls
    /\ skip_next /\ guard_fallback
    /\ skip_next' = FALSE
    /\ guard_log' = Append(guard_log, [invoked |-> "fallback", elapsed |-> 0])
    /\ UNCHANGED <<guard_fallback, guard_max_ms>>

\* wrapper(...) invoking the function, which returns after `elapsed` ms
GPCallFunction ==
    /\ Len(guard_log) < MaxCalls
    /\ ~(skip_next /\ guard_fallback)
    /\ \E elapsed \in ElapsedValues :
          /\ skip_next' = IF GuardExceeded(elapsed, guard_max_ms) THEN TRUE
                          ELSE skip_next
          /\ guard_log' = Append(guard_log, [invoked |-> "func", elapsed |-> elapsed])
    /\ UNCHANGED <<guard_fallback, guard_max_ms>>

\* wrapper(...) invoking the function, which raises: the exception leaves
\* the wrapper before elapsed is computed
GPCallFunctionRaises ==
    /\ Len(guard_log) < MaxCalls
    /\ ~(skip_next /\ guard_fallback)
    /\ guard_log' = Append(guard_log, [invoked |-> "raised", elapsed |-> 0])
    /\ UNCHANGED <<skip_next, guard_fallback, guard_max_ms>>

-----------------------------------------------------------------------------
(* lib/achievements.py: AchievementProgress *)

\* A variant of the threshold test that needs the progress to pass progress_max.
ReachesMaxStrict(cur, ach) == ach.known /\ cur > ach.progress_max

\* if ach and self.current >= ach.progress_max
ReachesMax(cur, ach) == ach.known /\ cur >= ach.progress_max

\* inputs: an achievement of one step, one of three steps, and an id that
\* ACHIEVEMENTS does not hold
AchievementValues ==
    {[known |-> TRUE, progress_max |-> 1],
     [known |-> TRUE, progress_max |-> 3],
     [known |-> FALSE, progress_max |-> 0]}
AmountValues == {-1, 0, 1, 2}
TimeValues == {100, 200}

\* AchievementProgress(achievement_id=...)
APInit ==
    /\ achievement \in AchievementValues
    /\ current = 0
    /\ unlocked = FALSE
    /\ unlock_time = <<>>
    /\ increment_log = <<>>

\* prog.increment(amount) on a progress that is already unlocked
APIncrementUnlocked ==
    /\ Len(increment_log) < MaxIncrements
    /\ unlocked
    /\ \E amount \in AmountValues :
          increment_log' = Append(increment_log,
              [amount |-> amount, returned |-> FALSE, current |-> current,
               unlocked |-> unlocked, unlock_time |-> unlock_time])
    /\ UNCHANGED <<achievement, current, unlocked, unlock_time>>

\* prog.increment(amount) on a progress that is not unlocked yet
APIncrement ==
    /\ Len(increment_log) < MaxIncrements
    /\ ~unlocked
    /\ \E amount \in AmountValues, now \in TimeValues :
          LET cur == current + amount
              reached == ReachesMax(cur, achievement)
          IN  /\ current' = cur
              /\ unlocked' = reached
              /\ unlock_time' = IF reached THEN <<now>> ELSE unlock_time
              /\ increment_log' = Append(increment_log,
                    [amount |-> amount, returned |-> reached, current |-> cur,
                     unlocked |-> reached,
                     unlock_time |-> IF reached THEN <<now>> ELSE unlock_time])
    /\ UNCHANGED achievement

-----------------------------------------------------------------------------
(* The clock, FrameBudget's phases and RenderEngine.  Every call that reads  *)
(* time.perf_counter() finds it at or after the last reading; times are      *)
(* whole milliseconds.  Under the engine the clock advances while a          *)
(* render_func or the queue's execution runs; the histories of the phase     *)
(* calls are kept for the calls made on the FrameBudget directly.            *)

PhaseNames == {"physics", "render"}
Elapsed == {0, 10, 30}
ParticleCounts == {7}
\* how long a render_func or the execution of the queue takes
WorkTimes == {0, 30}

\* time.perf_counter(): the readings the next call can take
Readings == {now \in {clock + e : e \in Elapsed} : now <= MaxClock}

NoPhase == [name |-> "none", returned |-> 0, at |-> 0, begun |-> <<>>]

NoFrame ==
    [frame_start |-> 0, executed_at |-> 0, frame_time |-> 0, quality_before |-> 0,
     count_before |-> 0, samples_before |-> 0, began |-> <<>>, queue |-> <<>>,
     particle_count |-> 0]

ENInit ==
    /\ clock = 0
    /\ phase_begun = [n \in PhaseNames |-> <<>>]
    /\ phase_ended = NoPhase
    /\ ended_names = {}
    /\ engine_last = "none"
    /\ frame_trace = NoFrame
    /\ began = <<>>

\* end_phase reads self.phase_start, whatever the name
PhaseStart(name, now) == phase_start

\* FrameBudget.begin_frame
FBBeginFrameAt(now) ==
    /\ frame_start' = now
    /\ phase_times' = <<>>
    /\ ended_names' = {}
    /\ clock' = now
    /\ UNCHANGED <<target_fps, quality_level, overrun_count, last_kind, q_hist,
                   prev_quality, under_run, phase_start>>

\* FrameBudget.begin_phase(phase_name)
FBBeginPhaseAt(name, now) ==
    /\ phase_start' = now
    /\ phase_begun' = [phase_begun EXCEPT ![name] = <<now>>]
    /\ clock' = now

\* FrameBudget.end_phase(phase_name): elapsed is stored under the name and returned
FBEndPhaseAt(name, start, now) ==
    /\ phase_times' = DictSet(phase_times, name, now - start)
    /\ phase_ended' = [name |-> name, returned |-> now - start, at |-> now,
                       begun |-> phase_begun[name]]
    /\ ended_names' = ended_names \cup {name}
    /\ clock' = now

\* budget.begin_frame()
FBClockBeginFrame ==
    /\ \E now \in Readings : FBBeginFrameAt(now)
    /\ UNCHANGED <<phase_begun, phase_ended, engine_last, frame_trace, began>>

\* budget.begin_phase(name)
FBBeginPhase ==
    /\ \E name \in PhaseNames, now \in Readings : FBBeginPhaseAt(name, now)
    /\ UNCHANGED <<target_fps, frame_start, quality_level, overrun_count, last_kind,
                   q_hist, prev_quality, under_run, phase_times>>
    /\ UNCHANGED <<phase_ended, ended_names, engine_last, frame_trace, began>>

\* budget.end_phase(name)
FBEndPhase ==
    /\ \E name \in PhaseNames, now \in Readings :
          FBEndPhaseAt(name, PhaseStart(name, now), now)
    /\ UNCHANGED <<target_fps, frame_start, quality_level, overrun_count, last_kind,
                   q_hist, prev_quality, under_run, phase_start>>
    /\ UNCHANGED <<phase_begun, engine_last, frame_trace, began>>

\* the commands the callers of the engine add
EngineCommands ==
    {RenderCommand(0, 0, "X", 7, UI_FOREGROUND), RenderCommand(0, 0, "Y", 7, BACKGROUND)}

\* A variant of begin_frame that leaves the queue as it is.
BeginFrameQueueKept(d) == d

\* RenderEngine.begin_frame: self.queue.clear()
BeginFrameQueue(d) == <<>>

\* engine.queue.add(cmd), outside render_layer
REAdd ==
    /\ Len(add_log) < MaxQueued
    /\ \E cmd \in EngineCommands :
          /\ commands' = QueueAdd(commands, cmd)
          /\ add_log' = Append(add_log, cmd)
    /\ exec' = NoExec
    /\ engine_last' = "add"
    /\ UNCHANGED <<fbVars, rsVars>>
    /\ UNCHANGED <<clock, phase_begun, phase_ended, ended_names, frame_trace, began>>

\* RenderEngine.begin_frame
REBeginFrame ==
    /\ \E now \in {clock} : FBBeginFrameAt(now)
    /\ commands' = BeginFrameQueue(commands)
    /\ add_log' = <<>>
    /\ exec' = NoExec
    /\ engine_last' = "begin_frame"
    /\ began' = <<commands # <<>>>>
    /\ UNCHANGED rsVars
    /\ UNCHANGED <<phase_begun, phase_ended, frame_trace>>

\* RenderEngine.render_layer(layer_name, render_func), render_func adding one
\* command to the queue it is given and taking d
RERenderLayer ==
    /\ Len(add_log) < MaxQueued
    /\ \E name \in {"render"}, cmd \in EngineCommands, now \in {clock}, d \in WorkTimes :
          /\ now + d <= MaxClock
          /\ phase_start' = now
          /\ commands' = QueueAdd(commands, cmd)
          /\ add_log' = Append(add_log, cmd)
          /\ phase_times' = DictSet(phase_times, name, d)
          /\ clock' = now + d
    /\ exec' = NoExec
    /\ engine_last' = "render_layer"
    /\ UNCHANGED <<target_fps, frame_start, quality_level, overrun_count, last_kind,
                   q_hist, prev_quality, under_run>>
    /\ UNCHANGED rsVars
    /\ UNCHANGED <<phase_begun, phase_ended, ended_names, frame_trace, began>>

\* RenderEngine.end_frame(particle_count): the queue is executed as the phase
\* 'execute', taking d; then budget.end_frame() measures the frame and feeds
\* adjust_quality; then stats.record_frame(frame_time / 1000, particle_count).
\* frame_log and frame_times hold the recorded time in thousandths of a second.
REEndFrame ==
    /\ Len(frame_log) < MaxEngineFrames
    /\ \E pc \in ParticleCounts, now \in {clock}, d \in WorkTimes,
          fails \in SUBSET (1..Len(commands)) :
          LET frame_time == now + d - frame_start
          IN  /\ now + d <= MaxClock
              /\ phase_start' = now
              /\ exec' = [ExecuteFrom(GetSorted(commands), 1, fails,
                                      [NoExec EXCEPT !.done = TRUE])
                          EXCEPT !.fails = fails, !.before = commands]
              /\ phase_times' = DictSet(phase_times, "execute", d)
              /\ clock' = now + d
              /\ Feed(frame_time)
              /\ total_frames' = total_frames + 1
              /\ frame_times' = Trim(Append(frame_times, frame_time), sample_window)
              /\ particle_counts' = Trim(Append(particle_counts, pc), sample_window)
              /\ frame_log' = Append(frame_log, <<frame_time, pc>>)
              /\ frame_trace' =
                    [frame_start |-> frame_start, executed_at |-> now + d,
                     frame_time |-> frame_time, quality_before |-> quality_level,
                     count_before |-> overrun_count, samples_before |-> total_frames,
                     began |-> began, queue |-> commands, particle_count |-> pc]
    /\ engine_last' = "end_frame"
    /\ began' = <<>>
    /\ UNCHANGED <<target_fps, frame_start>>
    /\ UNCHANGED <<commands, add_log>>
    /\ UNCHANGED <<layer_times, sample_window, layer_log>>
    /\ UNCHANGED <<phase_begun, phase_ended, ended_names>>

-----------------------------------------------------------------------------
(* Specifications *)

PSIdle ==
    /\ config = [integration |-> "SEMI_IMPLICIT", substeps |-> 1,
                 max_velocity |-> 10, bounds_check |-> TRUE]
    /\ particles = <<>>
    /\ force_generators = <<>>
    /\ frame_count = 0
    /\ last_update = -1
    /\ pre_update = <<>>

PIdle ==
    /\ p = NewParticle(VZero, VZero, 1, 0, 10, -1)
    /\ p_method = "SEMI_IMPLICIT"
    /\ p_calls = 0

FBIdle ==
    /\ target_fps = 30
    /\ frame_start = 0
    /\ quality_level = QualityCeiling
    /\ overrun_count = 0
    /\ last_kind = "none"
    /\ q_hist = <<>>
    /\ prev_quality = QualityCeiling
    /\ under_run = 0
    /\ phase_start = 0
    /\ phase_times = <<>>

RQIdle ==
    /\ commands = <<>>
    /\ add_log = <<>>
    /\ exec = NoExec

NZIdle ==
    /\ global_rng = 0
    /\ noise = [g \in Generators |-> NoGenerator]

ATIdle ==
    /\ state = AtmosphericState(50, 0)
    /\ atm_call = NoCall

LPIdle ==
    /\ bodies = <<>>
    /\ generator = [kind |-> "none"]
    /\ loop_dt = 1
    /\ loop_method = "SEMI_IMPLICIT"
    /\ loop_pc = "clear"
    /\ loop_steps = 0
    /\ loop_start = <<>>
    /\ loop_raised = "none"

RSIdle ==
    /\ frame_times = <<>>
    /\ layer_times = <<>>
    /\ particle_counts = <<>>
    /\ total_frames = 0
    /\ sample_window = 60
    /\ frame_log = <<>>
    /\ layer_log = <<>>

GPIdle ==
    /\ skip_next = FALSE
    /\ guard_fallback = FALSE
    /\ guard_max_ms = 16
    /\ guard_log = <<>>

APIdle ==
    /\ achievement = [known |-> FALSE, progress_max |-> 0]
    /\ current = 0
    /\ unlocked = FALSE
    /\ unlock_time = <<>>
    /\ increment_log = <<>>

ENIdle == ENInit

\* The particle system
InitSystem == PSInit /\ PIdle /\ FBIdle /\ RQIdle /\ NZIdle /\ ATIdle /\ LPIdle /\ RSIdle /\ GPIdle /\ APIdle /\ ENIdle

NextSystem ==
    \/ AddForceGenerator /\ UNCHANGED <<pVars, fbVars, rqVars, nzVars, atVars, lpVars, rsVars, gpVars, apVars, enVars>>
    \/ Spawn /\ UNCHANGED <<pVars, fbVars, rqVars, nzVars, atVars, lpVars, rsVars, gpVars, apVars, enVars>>
    \/ Update /\ UNCHANGED <<pVars, fbVars, rqVars, nzVars, atVars, lpVars, rsVars, gpVars, apVars, enVars>>
    \/ Clear /\ UNCHANGED <<pVars, fbVars, rqVars, nzVars, atVars, lpVars, rsVars, gpVars, apVars, enVars>>

SpecSystem == InitSystem /\ [][NextSystem]_vars

\* One particle
InitParticle == PSIdle /\ PInit /\ FBIdle /\ RQIdle /\ NZIdle /\ ATIdle /\ LPIdle /\ RSIdle /\ GPIdle /\ APIdle /\ ENIdle

NextParticle ==
    \/ PClearForces /\ UNCHANGED <<psVars, fbVars, rqVars, nzVars, atVars, lpVars, rsVars, gpVars, apVars, enVars>>
    \/ PApplyForce /\ UNCHANGED <<psVars, fbVars, rqVars, nzVars, atVars, lpVars, rsVars, gpVars, apVars, enVars>>
    \/ PIntegrate /\ UNCHANGED <<psVars, fbVars, rqVars, nzVars, atVars, lpVars, rsVars, gpVars, apVars, enVars>>

SpecParticle == InitParticle /\ [][NextParticle]_vars

\* The frame budget
InitBudget == PSIdle /\ PIdle /\ FBInit /\ RQIdle /\ NZIdle /\ ATIdle /\ LPIdle /\ RSIdle /\ GPIdle /\ APIdle /\ ENIdle

NextBudget ==
    \/ FBBeginFrame /\ UNCHANGED <<psVars, pVars, rqVars, nzVars, atVars, lpVars, rsVars, gpVars, apVars, enVars>>
    \/ FBAdjustQuality /\ UNCHANGED <<psVars, pVars, rqVars, nzVars, atVars, lpVars, rsVars, gpVars, apVars, enVars>>
    \/ FBEndFrame /\ UNCHANGED <<psVars, pVars, rqVars, nzVars, atVars, lpVars, rsVars, gpVars, apVars, enVars>>

SpecBudget == InitBudget /\ [][NextBudget]_vars

\* The render queue
InitQueue == PSIdle /\ PIdle /\ FBIdle /\ RQInit /\ NZIdle /\ ATIdle /\ LPIdle /\ RSIdle /\ GPIdle /\ APIdle /\ ENIdle

NextQueue ==
    \/ RQAdd /\ UNCHANGED <<psVars, pVars, fbVars, nzVars, atVars, lpVars, rsVars, gpVars, apVars, enVars>>
    \/ RQAddText /\ UNCHANGED <<psVars, pVars, fbVars, nzVars, atVars, lpVars, rsVars, gpVars, apVars, enVars>>
    \/ RQClear /\ UNCHANGED <<psVars, pVars, fbVars, nzVars, atVars, lpVars, rsVars, gpVars, apVars, enVars>>
    \/ RQExecute /\ UNCHANGED <<psVars, pVars, fbVars, nzVars, atVars, lpVars, rsVars, gpVars, apVars, enVars>>

SpecQueue == InitQueue /\ [][NextQueue]_vars

\* The noise generators
InitNoise == PSIdle /\ PIdle /\ FBIdle /\ RQIdle /\ NZInit /\ ATIdle /\ LPIdle /\ RSIdle /\ GPIdle /\ APIdle /\ ENIdle

NextNoise ==
    \/ NZConstruct /\ UNCHANGED <<psVars, pVars, fbVars, rqVars, atVars, lpVars, rsVars, gpVars, apVars, enVars>>
    \/ NZConstructUnseeded /\ UNCHANGED <<psVars, pVars, fbVars, rqVars, atVars, lpVars, rsVars, gpVars, apVars, enVars>>
    \/ NZSample /\ UNCHANGED <<psVars, pVars, fbVars, rqVars, atVars, lpVars, rsVars, gpVars, apVars, enVars>>

SpecNoise == InitNoise /\ [][NextNoise]_vars

\* The atmosphere
InitAtmosphere == PSIdle /\ PIdle /\ FBIdle /\ RQIdle /\ NZIdle /\ ATInit /\ LPIdle /\ RSIdle /\ GPIdle /\ APIdle /\ ENIdle

NextAtmosphere ==
    \/ ATClassifyStability /\ UNCHANGED <<psVars, pVars, fbVars, rqVars, nzVars, lpVars, rsVars, gpVars, apVars, enVars>>
    \/ ATWindChill /\ UNCHANGED <<psVars, pVars, fbVars, rqVars, nzVars, lpVars, rsVars, gpVars, apVars, enVars>>
    \/ ATHeatIndex /\ UNCHANGED <<psVars, pVars, fbVars, rqVars, nzVars, lpVars, rsVars, gpVars, apVars, enVars>>

SpecAtmosphere == InitAtmosphere /\ [][NextAtmosphere]_vars

\* Particles stepped by hand
InitLoop == PSIdle /\ PIdle /\ FBIdle /\ RQIdle /\ NZIdle /\ ATIdle /\ LPInit /\ RSIdle /\ GPIdle /\ APIdle /\ ENIdle

NextLoop ==
    \/ LPClear /\ UNCHANGED <<psVars, pVars, fbVars, rqVars, nzVars, atVars, rsVars, gpVars, apVars, enVars>>
    \/ LPApply /\ UNCHANGED <<psVars, pVars, fbVars, rqVars, nzVars, atVars, rsVars, gpVars, apVars, enVars>>
    \/ LPIntegrate /\ UNCHANGED <<psVars, pVars, fbVars, rqVars, nzVars, atVars, rsVars, gpVars, apVars, enVars>>

SpecLoop == InitLoop /\ [][NextLoop]_vars

\* The render statistics
InitStats == PSIdle /\ PIdle /\ FBIdle /\ RQIdle /\ NZIdle /\ ATIdle /\ LPIdle /\ RSInit /\ GPIdle /\ APIdle /\ ENIdle

NextStats ==
    \/ RSRecordFrame /\ UNCHANGED <<psVars, pVars, fbVars, rqVars, nzVars, atVars, lpVars, gpVars, apVars, enVars>>
    \/ RSRecordLayer /\ UNCHANGED <<psVars, pVars, fbVars, rqVars, nzVars, atVars, lpVars, gpVars, apVars, enVars>>

SpecStats == InitStats /\ [][NextStats]_vars

\* The performance guard
InitGuard ==
    PSIdle /\ PIdle /\ FBIdle /\ RQIdle /\ NZIdle /\ ATIdle /\ LPIdle /\ RSIdle /\ GPInit /\ APIdle /\ ENIdle

NextGuard ==
    \/ GPCallFallback /\ UNCHANGED <<psVars, pVars, fbVars, rqVars, nzVars, atVars, lpVars, rsVars, apVars, enVars>>
    \/ GPCallFunction /\ UNCHANGED <<psVars, pVars, fbVars, rqVars, nzVars, atVars, lpVars, rsVars, apVars, enVars>>
    \/ GPCallFunctionRaises /\ UNCHANGED <<psVars, pVars, fbVars, rqVars, nzVars, atVars, lpVars, rsVars, apVars, enVars>>

SpecGuard == InitGuard /\ [][NextGuard]_vars

\* The achievement progress
InitProgress ==
    PSIdle /\ PIdle /\ FBIdle /\ RQIdle /\ NZIdle /\ ATIdle /\ LPIdle /\ RSIdle /\ GPIdle /\ APInit /\ ENIdle

NextProgress ==
    \/ APIncrementUnlocked /\ UNCHANGED <<psVars, pVars, fbVars, rqVars, nzVars, atVars, lpVars, rsVars, gpVars, enVars>>
    \/ APIncrement /\ UNCHANGED <<psVars, pVars, fbVars, rqVars, nzVars, atVars, lpVars, rsVars, gpVars, enVars>>

SpecProgress == InitProgress /\ [][NextProgress]_vars

\* FrameBudget's phases against the clock
InitPhases ==
    PSIdle /\ PIdle /\ FBInit /\ RQIdle /\ NZIdle /\ ATIdle /\ LPIdle /\ RSIdle /\ GPIdle /\ APIdle /\ ENInit

NextPhases ==
    \/ FBClockBeginFrame /\ UNCHANGED <<psVars, pVars, rqVars, nzVars, atVars, lpVars, rsVars, gpVars, apVars>>
    \/ FBBeginPhase /\ UNCHANGED <<psVars, pVars, rqVars, nzVars, atVars, lpVars, rsVars, gpVars, apVars>>
    \/ FBEndPhase /\ UNCHANGED <<psVars, pVars, rqVars, nzVars, atVars, lpVars, rsVars, gpVars, apVars>>

SpecPhases == InitPhases /\ [][NextPhases]_vars

\* The render engine
InitEngine ==
    PSIdle /\ PIdle /\ FBInit /\ RQInit /\ NZIdle /\ ATIdle /\ LPIdle /\ RSInit /\ GPIdle /\ APIdle /\ ENInit

NextEngine ==
    \/ REAdd /\ UNCHANGED <<psVars, pVars, nzVars, atVars, lpVars, gpVars, apVars>>
    \/ REBeginFrame /\ UNCHANGED <<psVars, pVars, nzVars, atVars, lpVars, gpVars, apVars>>
    \/ RERenderLayer /\ UNCHANGED <<psVars, pVars, nzVars, atVars, lpVars, gpVars, apVars>>
    \/ REEndFrame /\ UNCHANGED <<psVars, pVars, nzVars, atVars, lpVars, gpVars, apVars>>

SpecEngine == InitEngine /\ [][NextEngine]_vars

-----------------------------------------------------------------------------
(* Claims about the particle system *)

UpdateReturned == last_update # -1

WithinBoundsMargin(q) ==
    /\ q.position.x >= Bounds[1] - Margin
    /\ q.position.x <= Bounds[3] + Margin
    /\ q.position.y >= Bounds[2] - Margin
    /\ q.position.y <= Bounds[4] + Margin

\* C1: when update() has returned after at least one substep, every particle in
\* the collection has |velocity| <= config.max_velocity, whatever its speed was
\* before the call, under every integration scheme and generator list.
C1_SpeedWithinMax ==
    last_update >= 1 =>
        \A i \in 1..Len(particles) :
            MagnitudeSquared(particles[i].velocity)
                <= config.max_velocity * config.max_velocity

\* C1 witness: update() returned, kept every particle, and one of them came in
\* faster than max_velocity.
C1_Witness ==
    /\ last_update >= 1
    /\ Len(particles) = Len(pre_update)
    /\ \E i \in 1..Len(pre_update) :
          MagnitudeSquared(pre_update[i].velocity)
              > config.max_velocity * config.max_velocity

\* C2 as claimed: when update() has returned, the collection holds no dead
\* particle and no particle outside bounds plus margin, for every PhysicsConfig.
C2_NoExpiredAnyConfig ==
    UpdateReturned =>
        \A i \in 1..Len(particles) :
            particles[i].alive /\ WithinBoundsMargin(particles[i])

\* C2 amended: the same, for every PhysicsConfig whose bounds_check is on.
C2_NoExpiredWhenBoundsCheck ==
    (UpdateReturned /\ config.bounds_check) =>
        \A i \in 1..Len(particles) :
            particles[i].alive /\ WithinBoundsMargin(particles[i])

\* C2 witness: with bounds_check on, update() returned having removed a dead
\* particle or one outside bounds plus margin.
C2_Witness ==
    /\ UpdateReturned
    /\ config.bounds_check
    /\ Len(particles) < Len(pre_update)
    /\ Len(particles) > 0

-----------------------------------------------------------------------------
(* Claims about one particle *)

\* C10: a particle created with age 0 has made age = p_calls integrate() calls;
\* with max_age = M > 0 it is alive exactly while fewer than M calls were made,
\* so the flag turns false in the call that makes age equal M; with
\* max_age <= 0 it is alive after any number of calls.
C10_Lifetime ==
    /\ p.age = p_calls
    /\ p.max_age > 0 => (p.alive <=> p_calls < p.max_age)
    /\ p.max_age <= 0 => p.alive

\* C10 witness: the integrate() call that made age equal max_age has been made.
C10_Witness == p.max_age > 0 /\ p.age = p.max_age /\ ~p.alive /\ p_calls > 1

-----------------------------------------------------------------------------
(* Claims about the frame budget *)

\* C3: from a new FrameBudget, after any sequence of adjust_quality and end_frame
\* calls with any frame times, quality_level lies in [0.3, 1.0].
C3_QualityInRange ==
    quality_level >= QualityFloor /\ quality_level <= QualityCeiling

\* C3 witness: quality_level has been lowered to the floor by a drop that the
\* floor cut short.
C3_Witness ==
    /\ quality_level = QualityFloor
    /\ last_kind = "over"
    /\ overrun_count = 0
    /\ Len(q_hist) > 0
    /\ q_hist[Len(q_hist)] < QualityFloor + QualityDrop

\* C4 as claimed: once 6 consecutive frames over 1.2x budget have been fed,
\* quality_level is strictly lower than before the first of them and not below
\* 0.3.  (quality_level never rises during such a run, so the last six frames
\* decide every longer run.)
C4_SixOverrunsLower ==
    Len(q_hist) = 6 => (quality_level < q_hist[1] /\ quality_level >= QualityFloor)

\* C4 amended: the same when quality_level was above the floor 0.3 before the
\* run; a run that starts at the floor leaves quality_level at the floor.
C4_SixOverrunsLowerAboveFloor ==
    Len(q_hist) = 6 =>
        /\ quality_level >= QualityFloor
        /\ q_hist[1] > QualityFloor => quality_level < q_hist[1]
        /\ q_hist[1] = QualityFloor => quality_level = QualityFloor

\* C4 witness: six consecutive overruns have been fed from a quality above the
\* floor.
C4_Witness ==
    Len(q_hist) = 6 /\ q_hist[1] > QualityFloor /\ q_hist[1] < QualityCeiling

\* C5 as claimed: quality_level drops only on a frame over 1.2x budget whose five
\* predecessors were over 1.2x budget too, and the drop resets the overrun counter.
C5_DropAfterSixConsecutive ==
    [][quality_level' < quality_level =>
          /\ last_kind' = "over"
          /\ Len(q_hist) >= 5
          /\ overrun_count' = 0]_vars

\* C5 amended: quality_level drops only on a frame over 1.2x budget that is the
\* sixth counted overrun (the counter stands at 5 before it), where a frame under
\* 0.7x budget takes one off the counter and a frame in between leaves it; the
\* drop resets the counter.
C5_DropOnSixthCountedOverrun ==
    [][quality_level' < quality_level =>
          /\ last_kind' = "over"
          /\ overrun_count = OverrunLimit
          /\ overrun_count' = 0]_vars

\* C5 witness: a drop has just happened although the frame before the run of
\* overruns that ended in it was not an overrun.
C5_Witness ==
    /\ last_kind = "over"
    /\ overrun_count = 0
    /\ Len(q_hist) > 0
    /\ Len(q_hist) < 6
    /\ quality_level < q_hist[Len(q_hist)]

-----------------------------------------------------------------------------
(* Claims about the render queue *)

SameKey(a, b) == a.x = b.x /\ a.y = b.y /\ a.layer = b.layer

\* The last command of the log with the key of c
LastAdded(c) ==
    add_log[CHOOSE i \in 1..Len(add_log) :
                /\ SameKey(add_log[i], c)
                /\ \A j \in (i + 1)..Len(add_log) : ~SameKey(add_log[j], c)]

\* C6: after any add / add_text calls since the last clear(), the queue holds
\* exactly one command for each distinct (x, y, layer) added, and it is the one
\* added last with that key; commands at one (x, y) on different layers do not
\* replace each other.
C6_LastWriteWins ==
    /\ \A i \in 1..Len(add_log) :
          Cardinality({j \in 1..Len(commands) :
                          SameKey(commands[j].value, add_log[i])}) = 1
    /\ \A j \in 1..Len(commands) :
          /\ \E i \in 1..Len(add_log) : SameKey(add_log[i], commands[j].value)
          /\ commands[j].value = LastAdded(commands[j].value)

\* C6 witness: a key was written twice with different glyphs, and the same
\* (x, y) was written on another layer after it.
C6_Witness ==
    /\ Len(add_log) = 3
    /\ SameKey(add_log[1], add_log[2])
    /\ add_log[1].char # add_log[2].char
    /\ add_log[3].x = add_log[1].x
    /\ add_log[3].y = add_log[1].y
    /\ add_log[3].layer # add_log[1].layer
    /\ Len(commands) = 2

NonDecreasingLayers(cmds) ==
    \A i \in 1..Len(cmds) : \A j \in i..Len(cmds) : cmds[i].layer <= cmds[j].layer

\* C7: get_sorted() returns every queued command exactly once, in non-decreasing
\* layer order whatever the order of the adds, and execute() hands the commands
\* to the drawing primitive in that order.
C7_SortedByLayer ==
    /\ Len(GetSorted(commands)) = Len(commands)
    /\ \A j \in 1..Len(commands) :
          Cardinality({k \in 1..Len(GetSorted(commands)) :
                          GetSorted(commands)[k] = commands[j].value}) = 1
    /\ NonDecreasingLayers(GetSorted(commands))
    /\ exec.done =>
          /\ NonDecreasingLayers(exec.attempted)
          /\ \A j \in 1..Len(commands) :
                Cardinality({k \in 1..Len(exec.attempted) :
                                exec.attempted[k] = commands[j].value}) = 1

\* C7 witness: execute() ran on three commands that were added front layer first.
C7_Witness ==
    /\ exec.done
    /\ Len(commands) = 3
    /\ commands[1].value.layer > commands[2].value.layer
    /\ commands[3].value.layer > commands[2].value.layer
    /\ commands[3].value.layer < commands[1].value.layer

\* C8: execute() never raises; a command whose draw fails is skipped, every later
\* command is still handed to the drawing primitive, the queue is left as it
\* was, and the count returned is the number of draws that succeeded.
C8_ExecuteNeverRaises ==
    exec.done =>
        /\ ~exec.raised
        /\ Len(exec.attempted) = Len(commands)
        /\ exec.count = Len(commands) - Cardinality(exec.fails)
        /\ exec.count = Len(exec.drawn)
        /\ commands = exec.before

\* C8 witness: the first draw failed and a later one succeeded.
C8_Witness ==
    /\ exec.done
    /\ 1 \in exec.fails
    /\ Len(exec.attempted) >= 2
    /\ exec.count >= 1

-----------------------------------------------------------------------------
(* Claims about the noise generators *)

IsDoubledPermutation(t) ==
    /\ Len(t) = 2 * PermSize
    /\ \A k \in 1..PermSize : t[k] = t[k + PermSize]
    /\ \A v \in 0..(PermSize - 1) : \E k \in 1..PermSize : t[k] = v

\* C9: two generators built from the same seed hold the same permutation table,
\* a permutation held twice over; sample() leaves the table as construction made
\* it; and two generators of one kind and seed return the same value at the
\* same point, whichever samples each has taken before.
C9_SameSeedSameNoise ==
    \A g \in Generators : \A h \in Generators :
        (noise[g].built /\ noise[h].built /\ noise[g].seed = noise[h].seed) =>
            /\ IsDoubledPermutation(noise[g].perm)
            /\ noise[g].perm = noise[h].perm
            /\ noise[g].perm = noise[g].built_perm
            /\ noise[g].kind = noise[h].kind =>
                  \A pt \in AllPoints :
                      (noise[g].out[pt] # NotSampled /\ noise[h].out[pt] # NotSampled)
                          => noise[g].out[pt] = noise[h].out[pt]

\* C9 witness: two generators of one kind and seed, built with the module-level
\* generator in different states, have sampled a common point after different
\* earlier samples.
C9_Witness ==
    /\ noise[1].built /\ noise[2].built
    /\ noise[1].kind = noise[2].kind
    /\ noise[1].seed = noise[2].seed
    /\ global_rng > 1
    /\ noise[1].out[<<2, 1>>] # NotSampled
    /\ noise[2].out[<<2, 1>>] # NotSampled
    /\ noise[1].out[<<0, 0>>] # NotSampled
    /\ noise[2].out[<<0, 0>>] = NotSampled

-----------------------------------------------------------------------------
(* Claims about the atmosphere functions *)

\* C11: calculate_heat_index returns the input temperature unchanged for
\* every input outside its validity domain, that is whenever T <= 27 or
\* RH <= 40.
C11_HeatIndexPassThroughOutsideDomain ==
    (/\ atm_call.fn = "calculate_heat_index"
     /\ HeatIndexPassThroughDomain(atm_call.args[1], atm_call.args[2]))
        => atm_call.result = atm_call.args[1] * 1000

\* C12: calculate_wind_chill returns T unchanged whenever T >= 10 and
\* whenever the wind is below 4.8 km/h (4/3 m/s); calculate_heat_index
\* returns T unchanged whenever T < 27.
C12_PassThroughGuards ==
    /\ (/\ atm_call.fn = "calculate_wind_chill"
        /\ \/ atm_call.args[1] >= 10
           \/ atm_call.args[2] * 3 < 40)
          => atm_call.result = atm_call.args[1] * 1000
    /\ (/\ atm_call.fn = "calculate_heat_index"
        /\ atm_call.args[1] < 27)
          => atm_call.result = atm_call.args[1] * 1000

\* a call at T = 10 exactly with a wind that is in the formula's domain
C12_Witness ==
    /\ atm_call.fn = "calculate_wind_chill"
    /\ atm_call.args[1] = 10
    /\ atm_call.args[2] = 50
    /\ atm_call.result = 10000

\* C13: classify_stability assigns exactly one StabilityClass to every
\* (wind speed, cloud cover) pair, and each of the six classes is assigned
\* to at least one pair.
C13_ExhaustiveSixClasses ==
    atm_call.fn = "classify_stability" =>
        /\ atm_call.result \in StabilityClass
        /\ \A c \in StabilityClass :
              \E w \in StateWindSpeeds, cl \in CloudCovers :
                 classify_stability(AtmosphericState(w, cl)) = c

-----------------------------------------------------------------------------
(* Claims about stepping a particle under one force *)

\* a clear / apply / integrate step has just been completed
StepDone == loop_pc = "clear" /\ loop_steps > 0

DragStepDone ==
    /\ StepDone
    /\ generator.kind = "drag"
    /\ loop_method = "SEMI_IMPLICIT"
    /\ loop_dt > 0

GravityStepDone ==
    /\ StepDone
    /\ generator.kind = "gravity"
    /\ generator.gravity > 0
    /\ loop_dt > 0

\* C14: with drag as the only force, the velocity after a step never points
\* opposite to the velocity before the step, for every speed, mass > 0,
\* coefficient and dt > 0.
C14_DragNeverReverses ==
    DragStepDone => Dot(bodies[1].velocity, loop_start[1].velocity) >= 0

\* C15: with DragForce as the only force on a moving particle, every
\* clear / apply / integrate step leaves the speed strictly lower than it was
\* before that step.
C15_DragStrictlySlows ==
    (DragStepDone /\ MagnitudeSquared(loop_start[1].velocity) > 0)
        => MagnitudeSquared(bodies[1].velocity)
              < MagnitudeSquared(loop_start[1].velocity)

\* C16: with EULER a step advances the position with the velocity held
\* before the velocity update, x_new = x_old + v_old * dt and
\* v_new = v_old + a * dt; with SEMI_IMPLICIT it advances the position with
\* the updated velocity.
C16_EulerUsesOldVelocity ==
    [][p_calls' = p_calls + 1 =>
         \E dt \in {1, 2} :
            LET a == TimesInverseMass(p.accumulated_force, p.mass)
                v_new == VAdd(p.velocity, VMul(a, dt))
            IN  /\ p_method = "EULER" =>
                      /\ p'.velocity = v_new
                      /\ p'.position = VAdd(p.position, VMul(p.velocity, dt))
                /\ p_method = "SEMI_IMPLICIT" =>
                      /\ p'.velocity = v_new
                      /\ p'.position = VAdd(p.position, VMul(v_new, dt))]_vars

\* C17: for a particle of positive mass starting at rest with GravityForce
\* (g > 0, direction down) as the only force, position.y and velocity.y
\* strictly increase at every step, under each IntegrationType.
C17_GravityStrictlyIncreases ==
    GravityStepDone =>
        /\ bodies[1].position.y > loop_start[1].position.y
        /\ bodies[1].velocity.y > loop_start[1].velocity.y

C19_NothingRaises == loop_raised = "none"

-----------------------------------------------------------------------------
(* Claims about RenderStats *)

\* the last n entries of a list, all of it when it is shorter
LastN(list, n) ==
    IF Len(list) <= n THEN list ELSE SubSeq(list, Len(list) - n + 1, Len(list))

RECURSIVE Column(_, _)
\* the k-th field of every entry of a log
Column(log, k) ==
    IF log = <<>> THEN <<>> ELSE <<log[1][k]>> \o Column(Tail(log), k)

\* the render times recorded for one layer, in arrival order
RecordedFor(name) ==
    Column(SelectSeq(layer_log, LAMBDA r : r[1] = name), 2)

LayerNames == {r[1] : r \in LayerRecords}

\* C20: after any sequence of record_frame and record_layer calls,
\* frame_times, particle_counts and each per-layer list hold at most
\* sample_window entries, which are exactly the most recently recorded
\* values in arrival order, and total_frames is the number of record_frame
\* calls ever made.
C20_RollingWindow ==
    /\ Len(frame_times) <= sample_window
    /\ Len(particle_counts) <= sample_window
    /\ frame_times = LastN(Column(frame_log, 1), sample_window)
    /\ particle_counts = LastN(Column(frame_log, 2), sample_window)
    /\ total_frames = Len(frame_log)
    /\ \A name \in LayerNames :
          IF RecordedFor(name) = <<>>
          THEN ~DictHas(layer_times, name)
          ELSE /\ DictHas(layer_times, name)
               /\ Len(DictGet(layer_times, name)) <= sample_window
               /\ DictGet(layer_times, name) = LastN(RecordedFor(name), sample_window)

\* more frames and more sidebar times recorded than the window holds
C20_Witness ==
    /\ sample_window = 2
    /\ total_frames = 4
    /\ frame_times = <<33, 16>>
    /\ Column(frame_log, 1) = <<16, 16, 33, 16>>
    /\ DictHas(layer_times, "sidebar")
    /\ DictGet(layer_times, "sidebar") = <<2, 1>>
    /\ RecordedFor("sidebar") = <<1, 2, 1>>

-----------------------------------------------------------------------------
(* Claims about guard_performance *)

\* the i-th call ran the function and the function took longer than max_ms
RanOver(i) ==
    /\ guard_log[i].invoked = "func"
    /\ guard_log[i].elapsed > guard_max_ms

\* C21: for a function wrapped by guard_performance(max_ms, fallback), a
\* call whose execution exceeds max_ms makes the next call invoke the
\* fallback, the call after that invokes the function again (never two
\* fallback calls in a row), and the fallback is never invoked unless the
\* most recent real execution of the function exceeded max_ms.
C21_FallbackOnceAfterOverrun ==
    guard_fallback =>
        \A i \in 1..Len(guard_log) :
            /\ (i < Len(guard_log) /\ RanOver(i))
                  => guard_log[i + 1].invoked = "fallback"
            /\ (i < Len(guard_log) /\ guard_log[i].invoked = "fallback")
                  => guard_log[i + 1].invoked # "fallback"
            /\ guard_log[i].invoked = "fallback"
                  => (i > 1 /\ RanOver(i - 1))

\* a slow call, the fallback, then the function again
C21_Witness ==
    /\ guard_fallback
    /\ Len(guard_log) = 4
    /\ guard_log[1] = [invoked |-> "func", elapsed |-> 16]
    /\ guard_log[2] = [invoked |-> "func", elapsed |-> 17]
    /\ guard_log[3].invoked = "fallback"
    /\ guard_log[4].invoked = "func"

-----------------------------------------------------------------------------
(* Claims about AchievementProgress *)

RECURSIVE AmountsTo(_)
\* the progress accumulated by the first i increments
AmountsTo(i) == IF i = 0 THEN 0 ELSE AmountsTo(i - 1) + increment_log[i].amount

\* the i-th increment is the one at which the accumulated progress first
\* reaches progress_max
FirstReaches(i) ==
    /\ achievement.known
    /\ AmountsTo(i) >= achievement.progress_max
    /\ \A j \in 1..(i - 1) : AmountsTo(j) < achievement.progress_max

\* C22: increment returns True exactly once over any sequence of
\* increments, on the increment at which the accumulated progress first
\* reaches progress_max; before that it returns False with unlocked false,
\* and after that every further increment returns False and leaves current,
\* unlocked and unlock_time unchanged.
C22_UnlockReportedOnce ==
    \A i \in 1..Len(increment_log) :
        /\ increment_log[i].returned <=> FirstReaches(i)
        /\ (\A j \in 1..i : ~FirstReaches(j)) =>
              /\ ~increment_log[i].returned
              /\ ~increment_log[i].unlocked
        /\ (\E j \in 1..(i - 1) : FirstReaches(j)) =>
              /\ ~increment_log[i].returned
              /\ increment_log[i].current = increment_log[i - 1].current
              /\ increment_log[i].unlocked = increment_log[i - 1].unlocked
              /\ increment_log[i].unlock_time = increment_log[i - 1].unlock_time

\* three steps reached on the third increment, and one increment after it
C22_Witness ==
    /\ achievement = [known |-> TRUE, progress_max |-> 3]
    /\ Len(increment_log) = 4
    /\ increment_log[1].amount = 1 /\ ~increment_log[1].returned
    /\ increment_log[2].amount = 1 /\ ~increment_log[2].returned
    /\ increment_log[3].amount = 1 /\ increment_log[3].returned
    /\ increment_log[4].amount = 2 /\ ~increment_log[4].returned
    /\ current = 3
    /\ unlocked

-----------------------------------------------------------------------------
(* Claims about the cycles of ParticleSystem.update *)

\* what one generator adds to the accumulator of q in a cycle of step dt
Contribution(g, q, dt) ==
    GeneratorApply(g, [q EXCEPT !.accumulated_force = VZero], dt).accumulated_force

RECURSIVE SumOfContributions(_, _, _)
\* the sum of what the first i registered generators add in a cycle
SumOfContributions(q, i, dt) ==
    IF i = 0 THEN VZero
    ELSE VAdd(SumOfContributions(q, i - 1, dt),
              Contribution(force_generators[i], q, dt))

\* one cycle as claimed: integrate exactly the generators' sum, then clamp
ClaimedCycle(q, dt) ==
    LET forced == [q EXCEPT !.accumulated_force =
                      SumOfContributions(q, Len(force_generators), dt)]
        moved == Integrate(forced, dt, config.integration)
    IN  IF MagnitudeExceeds(moved.velocity, config.max_velocity)
        THEN [moved EXCEPT !.velocity = Clamped(moved.velocity, config.max_velocity)]
        ELSE moved

RECURSIVE ClaimedCycles(_, _, _)
ClaimedCycles(q, n, dt) ==
    IF n = 0 THEN q ELSE ClaimedCycle(ClaimedCycles(q, n - 1, dt), dt)

\* C23: update(dt) with substeps = N >= 1 puts each particle through exactly
\* N cycles, each clear -> every generator applies -> integrate -> clamp, and
\* the force integrated in a cycle is exactly the sum of what the generators
\* contributed in that cycle; expired particles are removed once, after the
\* last cycle.
C23_SubstepCycles ==
    last_update >= 1 =>
        LET cycled == [i \in 1..Len(pre_update) |->
                          ClaimedCycles(pre_update[i], last_update, 1)]
        IN  /\ \A i \in 1..Len(cycled) :
                  cycled[i].age = pre_update[i].age + last_update
            /\ particles =
                  IF config.bounds_check
                  THEN SelectSeq(cycled, LAMBDA q : ~IsExpired(q, Bounds))
                  ELSE cycled

\* an update of two cycles under one generator, starting from a particle
\* whose accumulator still held the force of an earlier cycle
C23_Witness ==
    /\ last_update = 2
    /\ Len(force_generators) = 1
    /\ Len(particles) >= 1
    /\ \E i \in 1..Len(pre_update) : pre_update[i].accumulated_force # VZero

\* C28: a particle's age advances by one per integration cycle: one update()
\* with substeps = N raises every age by N, so a particle with initial age 0
\* and max_age = M > 0 is marked dead (and, with bounds_check on, removed)
\* during update number ceil(M / N); a dead particle never becomes alive
\* again.
C28_AgePerCycle ==
    /\ (last_update >= 1 /\ ~config.bounds_check) =>
          \A i \in 1..Len(particles) :
             LET before == pre_update[i]
                 after == particles[i]
                 N == last_update
                 M == before.max_age
                 number == after.age \div N
             IN  /\ after.age = before.age + N
                 /\ ~before.alive => ~after.alive
                 /\ (before.alive /\ M > 0) => (after.alive <=> after.age < M)
                 /\ (before.alive /\ ~after.alive) =>
                       /\ number * N >= M
                       /\ (number - 1) * N < M
    /\ (last_update >= 1 /\ config.bounds_check) =>
          \A i \in 1..Len(particles) :
             /\ particles[i].alive
             /\ particles[i].max_age > 0 => particles[i].age < particles[i].max_age

\* the second update of two cycles each marks a particle of max_age 3 dead,
\* at age 4
C28_Witness ==
    /\ last_update = 2
    /\ ~config.bounds_check
    /\ \E i \in 1..Len(particles) :
          /\ particles[i].max_age = 3
          /\ particles[i].age = 4
          /\ pre_update[i].alive
          /\ ~particles[i].alive

\* C29: in every integration cycle of update() a particle's position moves at
\* most max_velocity * sub_dt; so over the substeps cycles of one update()
\* (sub_dt = 1 here) it ends at most substeps * max_velocity from where it
\* started, whatever the scheme and the generators.
C29_MotionWithinClamp ==
    (last_update >= 1 /\ ~config.bounds_check) =>
        \A i \in 1..Len(particles) :
            LET moved == VSub(particles[i].position, pre_update[i].position)
                limit == last_update * config.max_velocity
            IN  MagnitudeSquared(moved) <= limit * limit

-----------------------------------------------------------------------------
(* Claims about what ForceGenerator.apply writes *)

\* what apply() reads of a particle
SameToGenerator(a, b) ==
    /\ a.position = b.position
    /\ a.velocity = b.velocity
    /\ a.mass = b.mass
    /\ a.buoyancy_factor = b.buoyancy_factor
    /\ a.drag_coefficient = b.drag_coefficient

\* C27: generator.apply(particle, dt) changes only the particle's force
\* accumulator, not its position, velocity, age or liveness, and leaves the
\* generator as it was, so that equal particles get equal forces from the
\* shared generator however many applications came before.
C27_ApplyOnlyAccumulates ==
    [][(loop_pc = "apply" /\ loop_pc' = "integrate") =>
          /\ \A i \in 1..Len(bodies) :
                bodies'[i] = [bodies[i] EXCEPT
                                 !.accumulated_force = bodies'[i].accumulated_force]
          /\ generator' = generator
          /\ \A i, j \in 1..Len(bodies) :
                SameToGenerator(bodies[i], bodies[j]) =>
                    bodies'[i].accumulated_force = bodies'[j].accumulated_force]_vars

-----------------------------------------------------------------------------
(* Claims about PerlinNoise on the lattice *)

\* both coordinates of the point are whole numbers
IsLatticePoint(pt) == pt[1] % 2 = 0 /\ pt[2] % 2 = 0

\* C30: PerlinNoise.sample(x, y) is exactly 0 whenever x and y are both whole
\* numbers, for every seed, negative coordinates and coordinates past the table
\* size included; so generators of different seeds agree on every such point.
C30_ZeroOnLattice ==
    \A g \in Generators : \A h \in Generators : \A pt \in AllPoints :
        (/\ noise[g].built /\ noise[g].kind = "perlin"
         /\ IsLatticePoint(pt)
         /\ noise[g].out[pt] # NotSampled) =>
            /\ noise[g].out[pt] = <<0>>
            /\ (/\ noise[h].built /\ noise[h].kind = "perlin"
                /\ noise[h].out[pt] # NotSampled) =>
                   noise[h].out[pt] = noise[g].out[pt]

\* two PerlinNoise generators of different seeds have both sampled the point
\* with a negative coordinate and one past the table size, and differ off the
\* lattice
C30_Witness ==
    /\ noise[1].built /\ noise[2].built
    /\ noise[1].kind = "perlin" /\ noise[2].kind = "perlin"
    /\ noise[1].seed # noise[2].seed
    /\ \A pt \in LatticePoints :
          noise[1].out[pt] # NotSampled /\ noise[2].out[pt] # NotSampled
    /\ \E pt \in SamplePoints :
          /\ noise[1].out[pt] # NotSampled /\ noise[2].out[pt] # NotSampled
          /\ noise[1].out[pt] # noise[2].out[pt]

-----------------------------------------------------------------------------
(* Claims about FrameBudget recovering quality *)

\* C25: from every reachable state, each frame under 0.7x budget raises
\* quality_level by 0.02, never above 1.0; after 35 such frames in a row
\* quality_level is 1.0; and from 1.0 it stays there over every frame that is
\* not over 1.2x budget.
C25_QualityRecovers ==
    /\ last_kind = "under" =>
          /\ quality_level = Min(100, prev_quality + 2)
          /\ quality_level <= 100
    /\ under_run >= 35 => quality_level = 100
    /\ (prev_quality = 100 /\ last_kind \in {"under", "within"}) =>
          quality_level = 100

\* the 35th frame under budget in a row, counted from the floor 0.3, is the
\* one that brings quality_level to 1.0
C25_Witness ==
    /\ under_run = 35
    /\ prev_quality = 98
    /\ quality_level = 100

-----------------------------------------------------------------------------
(* Claims about FrameBudget's phases *)

\* C26: the value end_phase(name) stores and returns is the time elapsed
\* since the most recent begin_phase(name) for that same name, also when the
\* begin/end pairs of different names are nested or interleaved; and the phase
\* map holds exactly the phases ended since the last begin_frame.
C26_PhaseTimedByName ==
    /\ (phase_ended.name # "none" /\ phase_ended.begun # <<>>) =>
          /\ phase_ended.returned = phase_ended.at - phase_ended.begun[1]
          /\ DictHas(phase_times, phase_ended.name) =>
                DictGet(phase_times, phase_ended.name) = phase_ended.returned
    /\ {phase_times[i].key : i \in 1..Len(phase_times)} = ended_names

-----------------------------------------------------------------------------
(* Claims about a frame driven through RenderEngine *)

\* end_frame has just returned, for a frame that begin_frame had started
FrameEnded == engine_last = "end_frame" /\ frame_trace.began # <<>>

\* C24: begin_frame empties the render queue, so that the following end_frame
\* draws no command added before it; end_frame executes the queue, in layer
\* order, then feeds the time measured after the execution to the quality
\* adjustment, then records exactly one frame sample; a frame over budget is
\* executed and recorded in full all the same.
C24_FrameSequence ==
    /\ engine_last = "begin_frame" => commands = <<>>
    /\ FrameEnded =>
          /\ exec.done
          /\ exec.attempted = GetSorted(commands)
          /\ \A i \in 1..Len(exec.attempted) :
                \E j \in 1..Len(add_log) : add_log[j] = exec.attempted[i]
          /\ frame_trace.frame_time = frame_trace.executed_at - frame_trace.frame_start
          /\ last_kind = FrameKind(frame_trace.frame_time, target_fps)
          /\ <<quality_level, overrun_count>> =
                AdjustQuality(frame_trace.quality_before, frame_trace.count_before,
                              frame_trace.frame_time, target_fps)
          /\ total_frames = frame_trace.samples_before + 1
          /\ Len(frame_log) = total_frames
          /\ frame_log[Len(frame_log)] =
                <<frame_trace.frame_time, frame_trace.particle_count>>
          /\ frame_times[Len(frame_times)] = frame_trace.frame_time

\* a frame that ran over budget, begun with a command waiting in the queue,
\* has drawn the one command built since and has been recorded
C24_Witness ==
    /\ FrameEnded
    /\ frame_trace.began[1]
    /\ last_kind = "over"
    /\ total_frames = 2
    /\ exec.count = 1
    /\ Len(add_log) = 1
    /\ frame_trace.queue = commands

====
